---- MODULE Spec2Model ----
(***************************************************************************)
(* A model of PoetAgent (enw/poet): the generation loop of run(), the      *)
(* guidance line-count extractor, the style table and the termination       *)
(* policy of checkIfComplete().                                             *)
(*                                                                         *)
(* Text is modelled as a sequence of one-character strings, so that trim,   *)
(* toLowerCase, includes, replace and the line-count regular expression     *)
(* are computed the way the code computes them.  An optional value          *)
(* (string | undefined, number | null) is None or Some(x).                  *)
(***************************************************************************)
EXTENDS Integers, Sequences, FiniteSets, TLC

None == <<>>
Some(x) == <<x>>
IsSome(o) == Len(o) = 1
Val(o) == o[1]

\* JavaScript truthiness of a string | undefined: undefined and "" are falsy.
Truthy(o) == IsSome(o) /\ Len(Val(o)) > 0

\* JavaScript truthiness of a number | null: null and 0 are falsy.
NumTruthy(o) == IsSome(o) /\ Val(o) # 0

---------------------------------------------------------------------------
(* Characters and the string methods the agent uses.                       *)

Digits == <<"0", "1", "2", "3", "4", "5", "6", "7", "8", "9">>
UpperChars == <<"A", "B", "C", "D", "E", "F", "G", "H", "I", "J", "K", "L", "M",
                "N", "O", "P", "Q", "R", "S", "T", "U", "V", "W", "X", "Y", "Z">>
LowerChars == <<"a", "b", "c", "d", "e", "f", "g", "h", "i", "j", "k", "l", "m",
                "n", "o", "p", "q", "r", "s", "t", "u", "v", "w", "x", "y", "z">>

DigitSet == {Digits[i] : i \in 1..Len(Digits)}
DigitValue == [c \in DigitSet |-> (CHOOSE i \in 1..Len(Digits) : Digits[i] = c) - 1]
UpperSet == {UpperChars[i] : i \in 1..Len(UpperChars)}
LowerOf == [c \in UpperSet |-> LowerChars[CHOOSE i \in 1..Len(UpperChars) : UpperChars[i] = c]]

IsDigit(c) == c \in DigitSet
DigitVal(c) == DigitValue[c]

\* \s of the regular expression, and the characters String.trim() strips.
IsSpace(c) == c \in {" ", "\n", "\t"}

LowerChar(c) == IF c \in UpperSet THEN LowerOf[c] ELSE c

RECURSIVE toLowerCase(_)
toLowerCase(s) ==
    IF Len(s) = 0 THEN <<>> ELSE <<LowerChar(Head(s))>> \o toLowerCase(Tail(s))

RECURSIVE trimStart(_)
trimStart(s) ==
    IF Len(s) > 0 /\ IsSpace(Head(s)) THEN trimStart(Tail(s)) ELSE s

RECURSIVE trimEnd(_)
trimEnd(s) ==
    IF Len(s) > 0 /\ IsSpace(s[Len(s)]) THEN trimEnd(SubSeq(s, 1, Len(s) - 1)) ELSE s

trim(s) == trimEnd(trimStart(s))

includes(s, sub) ==
    \E i \in 0..(Len(s) - Len(sub)) : SubSeq(s, i + 1, i + Len(sub)) = sub

\* s.replace(/"/g, '')
RECURSIVE removeQuotes(_)
removeQuotes(s) ==
    IF Len(s) = 0 THEN <<>>
    ELSE IF Head(s) = "\"" THEN removeQuotes(Tail(s))
    ELSE <<Head(s)>> \o removeQuotes(Tail(s))

\* parseInt(digits, 10) of a non-empty run of decimal digits.
RECURSIVE parseInt(_)
parseInt(ds) ==
    IF Len(ds) = 0 THEN 0
    ELSE 10 * parseInt(SubSeq(ds, 1, Len(ds) - 1)) + DigitVal(ds[Len(ds)])

---------------------------------------------------------------------------
(* extractLineCount: /(\d+)\s*lines?\s*(long|in length|total)?/i            *)

S_line == <<"l", "i", "n", "e">>
S_random == <<"r", "a", "n", "d", "o", "m">>
S_haiku == <<"h", "a", "i", "k", "u">>
S_limerick == <<"l", "i", "m", "e", "r", "i", "c", "k">>
S_sonnet == <<"s", "o", "n", "n", "e", "t">>
S_yes == <<"y", "e", "s">>

\* The first index after the run of characters satisfying the class at i.
RECURSIVE SkipDigits(_, _)
SkipDigits(s, i) ==
    IF i <= Len(s) /\ IsDigit(s[i]) THEN SkipDigits(s, i + 1) ELSE i

RECURSIVE SkipSpaces(_, _)
SkipSpaces(s, i) ==
    IF i <= Len(s) /\ IsSpace(s[i]) THEN SkipSpaces(s, i + 1) ELSE i

\* The expression matches at i: a greedy digit run, optional white space,
\* then "line" in any case.  The trailing s? and (long|in length|total)?
\* are optional and capture nothing the code reads.  Giving back digits or
\* spaces never helps, because the next character must be "l".
MatchAt(s, i) ==
    /\ i <= Len(s)
    /\ IsDigit(s[i])
    /\ LET k == SkipSpaces(s, SkipDigits(s, i))
       IN /\ k + Len(S_line) - 1 <= Len(s)
          /\ toLowerCase(SubSeq(s, k, k + Len(S_line) - 1)) = S_line

\* Mutant: the match that starts last is reported.
RECURSIVE FirstMatchFrom_Last(_, _)
FirstMatchFrom_Last(s, i) ==
    IF i > Len(s) THEN 0
    ELSE LET later == FirstMatchFrom_Last(s, i + 1)
         IN IF later # 0 THEN later
            ELSE IF MatchAt(s, i) THEN i
            ELSE 0

\* String.match without the g flag reports the leftmost match: the first
\* index from i on at which the expression matches, 0 when there is none.
RECURSIVE FirstMatchFrom(_, _)
FirstMatchFrom(s, i) ==
    IF i > Len(s) THEN 0
    ELSE IF MatchAt(s, i) THEN i
    ELSE FirstMatchFrom(s, i + 1)

\* Mutant: a count of 0 is returned as it is.
extractLineCount_AcceptZero(guidance) ==
    IF ~Truthy(guidance) THEN None
    ELSE LET s == Val(guidance)
             m == FirstMatchFrom(s, 1)
         IN IF m = 0 THEN None
            ELSE Some(parseInt(SubSeq(s, m, SkipDigits(s, m) - 1)))

\* Mutant: the group captures one digit, (\d) for (\d+), so that the
\* leftmost match starts at the last digit of the number.
extractLineCount_SingleDigit(guidance) ==
    IF ~Truthy(guidance) THEN None
    ELSE LET s == Val(guidance)
             m == FirstMatchFrom(s, 1)
         IN IF m = 0 THEN None
            ELSE LET count == DigitVal(s[SkipDigits(s, m) - 1])
                 IN IF count > 0 THEN Some(count) ELSE None

extractLineCount(guidance) ==
    IF ~Truthy(guidance) THEN None
    ELSE LET s == Val(guidance)
             m == FirstMatchFrom(s, 1)
         IN IF m = 0 THEN None
            ELSE LET count == parseInt(SubSeq(s, m, SkipDigits(s, m) - 1))
                 IN IF count > 0 THEN Some(count) ELSE None

---------------------------------------------------------------------------
(* Inputs: the options of a run and the responses of the generation         *)
(* capability.                                                              *)

MaxGuidanceCount == 15

RECURSIVE NumText(_)
NumText(n) ==
    IF n < 10 THEN <<Digits[n + 1]>>
    ELSE NumText(n \div 10) \o <<Digits[(n % 10) + 1]>>

T_linesLong == <<" ", "l", "i", "n", "e", "s", " ", "l", "o", "n", "g">>
T_nicePoem == <<"n", "i", "c", "e", " ", "p", "o", "e", "m">>

\* "<n> lines long"
CountGuidance(n) == NumText(n) \o T_linesLong

GuidanceSet ==
    {None, Some(<<>>), Some(T_nicePoem)}
    \cup {Some(CountGuidance(n)) : n \in 0..MaxGuidanceCount}

StyleSet ==
    {None,
     Some(<<"H", "a", "i", "k", "u">>), Some(S_haiku),
     Some(<<"H", "A", "I", "K", "U">>),
     Some(<<"L", "i", "m", "e", "r", "i", "c", "k">>),
     Some(<<"S", "o", "n", "n", "e", "t">>),
     Some(S_random),
     Some(<<"O", "d", "e">>)}

TitleSet == {None, Some(<<>>), Some(<<"M", "y">>)}
SeedLineSet == {None, Some(<<"S", "e", "e", "d">>)}

RunOptions ==
    [title : TitleSet, seedLine : SeedLineSet, theme : {None},
     style : StyleSet, userBio : {None}, guidance : GuidanceSet]

\* Options for the runs whose prompts are examined: themes and personas,
\* 'random' in several spellings, and a few guidance texts.
T_Sea == <<"S", "e", "a">>
T_Bio == <<"B", "i", "o">>

ThemeSet ==
    {None, Some(<<>>), Some(S_random),
     Some(<<"R", "a", "n", "d", "o", "m">>), Some(T_Sea)}

UserBioSet == {None, Some(<<>>), Some(T_Bio)}

PromptStyleSet == StyleSet \cup {Some(<<"R", "A", "N", "D", "O", "M">>)}

PromptGuidanceCount == 6

PromptGuidanceSet ==
    {None, Some(<<>>), Some(T_nicePoem), Some(CountGuidance(PromptGuidanceCount))}

PromptOptions ==
    [title : {None}, seedLine : {None}, theme : ThemeSet,
     style : PromptStyleSet, userBio : UserBioSet, guidance : PromptGuidanceSet]

\* Guidance texts for direct calls of extractLineCount.  One mention of a
\* length is prefix, number, gap, word, suffix; a text with two mentions is
\* a first mention, ", then ", and a second mention.
ExtractPrefixes == {<<>>, <<"m", "a", "k", "e", " ", "i", "t", " ">>}
ExtractNumbers == {<<"0">>, <<"1">>, <<"7">>, <<"2", "4">>, <<"5", "0", "0">>, <<"0", "0">>, <<"0", "1", "2">>}
ExtractGaps == {<<>>, <<" ">>, <<" ", "\n">>}
ExtractWords == {<<"l", "i", "n", "e">>, <<"l", "i", "n", "e", "s">>, <<"L", "I", "N", "E", "S">>, <<"L", "i", "n", "e", "s">>, <<"l", "i", "n">>, <<"v", "e", "r", "s", "e", "s">>}
ExtractSuffixes == {<<>>, <<" ", "l", "o", "n", "g">>, <<" ", "i", "n", " ", "l", "e", "n", "g", "t", "h">>, <<" ", "t", "o", "t", "a", "l">>, <<" ", "L", "O", "N", "G">>, <<"!">>}

MentionParts ==
    [prefix : ExtractPrefixes, number : ExtractNumbers, gap : ExtractGaps,
     word : ExtractWords, suffix : ExtractSuffixes]

Assemble(parts) ==
    parts.prefix \o parts.number \o parts.gap \o parts.word \o parts.suffix

FirstMentions == {<<"0", " ", "l", "i", "n", "e", "s">>, <<"3", " ", "l", "i", "n", "e", "s">>, <<"1", "2", " ", "l", "i", "n", "e", "s", " ", "l", "o", "n", "g">>, <<"3", " ", "v", "e", "r", "s", "e", "s">>, <<"n", "o", " ", "l", "i", "n", "e", "s">>}
SecondMentions == {<<"5", " ", "l", "i", "n", "e", "s">>, <<"0", " ", "l", "i", "n", "e", "s">>, <<"8", " ", "L", "I", "N", "E", "S", " ", "t", "o", "t", "a", "l">>}
T_then == <<",", " ", "t", "h", "e", "n", " ">>

ExtractInputs ==
    {None, Some(<<>>), Some(T_nicePoem), Some(<<"l", "i", "n", "e", "s", " ", "l", "o", "n", "g">>), Some(<<"2", "4">>)}
    \cup {Some(Assemble(parts)) : parts \in MentionParts}
    \cup {Some(first \o T_then \o second) :
              first \in FirstMentions, second \in SecondMentions}

TitleResponses ==
    {<<"D", "u", "s", "k">>,
     <<" ", "D", "u", "s", "k", "\n">>,
     <<"\"", " ", "D", "u", "s", "k", " ", "\"">>}

SeedResponses == {<<"C", "a", "r", "p", "e">>, <<" ", "C", "a", "r", "p", "e", " ">>}

\* The capability answers a next-line request for a poem of k lines; the
\* answer to the first request may be blank.
LineResponses(k) ==
    {<<" ">> \o NumText(k + 1) \o <<"\n">>}
    \cup (IF k = 1 THEN {<<"\n">>} ELSE {})

JudgeYes ==
    {<<"Y", "e", "s">>, <<"Y", "E", "S", ".">>, <<" ", "y", "e", "s", "\n">>,
     <<"y", "e", "s", "t", "e", "r", "d", "a", "y">>}
JudgeNo == {<<"n", "o">>, <<>>}
JudgeResponses == JudgeYes \cup JudgeNo

\* What extractLineCount returns for each guidance text of the model,
\* computed once.
LineCounts == [guidance \in GuidanceSet |-> extractLineCount(guidance)]

---------------------------------------------------------------------------
(* The style table: fixed line counts and the default ceiling.             *)

DefaultMaxLines == 12
HaikuLines == 3
LimerickLines == 5
SonnetLines == 14
MinLinesBeforeCheck == 3

\* Mutant: the style is compared as written, without toLowerCase().
lowerCaseStyleOf_AsWritten(style) == style

\* style?.toLowerCase()
lowerCaseStyleOf(style) ==
    IF IsSome(style) THEN Some(toLowerCase(Val(style))) ELSE None

\* if (lowerCaseStyle && lowerCaseStyle !== 'random')
IsNamedStyle(style) ==
    /\ Truthy(lowerCaseStyleOf(style))
    /\ Val(lowerCaseStyleOf(style)) # S_random

\* Mutant: the style table has no entry for the limerick.
StyleMaxLines_NoLimerick(style) ==
    IF IsNamedStyle(style)
    THEN LET lowerCaseStyle == Val(lowerCaseStyleOf(style))
         IN IF lowerCaseStyle = S_haiku THEN HaikuLines
            ELSE IF lowerCaseStyle = S_sonnet THEN SonnetLines
            ELSE DefaultMaxLines
    ELSE DefaultMaxLines

\* run(): the else branch that derives maxLines from the style.
StyleMaxLines(style) ==
    IF IsNamedStyle(style)
    THEN LET lowerCaseStyle == Val(lowerCaseStyleOf(style))
         IN IF lowerCaseStyle = S_haiku THEN HaikuLines
            ELSE IF lowerCaseStyle = S_limerick THEN LimerickLines
            ELSE IF lowerCaseStyle = S_sonnet THEN SonnetLines
            ELSE DefaultMaxLines
    ELSE DefaultMaxLines

\* Mutant: the style's fixed count takes precedence over the guidance count.
ResolveMaxLines_StyleFirst(guidance, style) ==
    IF StyleMaxLines(style) # DefaultMaxLines THEN StyleMaxLines(style)
    ELSE IF NumTruthy(LineCounts[guidance]) THEN Val(LineCounts[guidance])
    ELSE DefaultMaxLines

\* run(): let maxLines = 12; guidance count first, the style otherwise.
ResolveMaxLines(guidance, style) ==
    LET guidanceLineCount == LineCounts[guidance]
    IN IF NumTruthy(guidanceLineCount) THEN Val(guidanceLineCount)
       ELSE StyleMaxLines(style)

\* Mutant: the fixed-count returns compare with > where the code has >=.
FixedCountReached_Strict(style, len) ==
    /\ IsNamedStyle(style)
    /\ LET lowerCaseStyle == Val(lowerCaseStyleOf(style))
       IN \/ lowerCaseStyle = S_haiku /\ len > HaikuLines
          \/ lowerCaseStyle = S_limerick /\ len > LimerickLines
          \/ lowerCaseStyle = S_sonnet /\ len > SonnetLines

\* Mutant: no style completes the poem by its line count.
FixedCountReached_Never(style, len) == FALSE

\* checkIfComplete(): the three fixed-count returns.
FixedCountReached(style, len) ==
    /\ IsNamedStyle(style)
    /\ LET lowerCaseStyle == Val(lowerCaseStyleOf(style))
       IN \/ lowerCaseStyle = S_haiku /\ len >= HaikuLines
          \/ lowerCaseStyle = S_limerick /\ len >= LimerickLines
          \/ lowerCaseStyle = S_sonnet /\ len >= SonnetLines

\* Mutant: the response must be the word itself, === 'yes' for includes('yes').
Affirms_ExactWord(response) == toLowerCase(trim(response)) = S_yes

\* Mutant: the response is searched as written, without toLowerCase().
Affirms_CaseSensitive(response) == includes(trim(response), S_yes)

\* checkIfComplete(): response.trim().toLowerCase().includes('yes')
Affirms(response) == includes(toLowerCase(trim(response)), S_yes)

\* Mutant: the title is trimmed but keeps its double quotes.
CleanTitle_TrimOnly(response) == trim(response)

\* generateTitle(): title.trim().replace(/"/g, '')
CleanTitle(response) == removeQuotes(trim(response))

\* Mutant: the loop compares with <= where the code has <.
LoopCondition_OffByOne(complete, len, max) == ~complete /\ len <= max

\* Mutant: the loop has no ceiling.
LoopCondition_NoCeiling(complete, len, max) == ~complete

\* Mutant: the loop does not read isComplete.
LoopCondition_IgnoreComplete(complete, len, max) == len < max

\* run(): the condition of the while loop.
LoopCondition(complete, len, max) == ~complete /\ len < max

\* Mutant: without guidance the check begins at 2 lines.
ShouldCheck_From2(guidanceLineCount, len, max) ==
    IF NumTruthy(guidanceLineCount)
    THEN len >= Val(guidanceLineCount)
    ELSE len >= 2 \/ len >= max

\* run(): whether checkIfComplete is called after an append.
ShouldCheck(guidanceLineCount, len, max) ==
    IF NumTruthy(guidanceLineCount)
    THEN len >= Val(guidanceLineCount)
    ELSE len >= MinLinesBeforeCheck \/ len >= max

---------------------------------------------------------------------------
(* Prompts.  A prompt is the sequence of the fragments the code             *)
(* concatenates, in the order of concatenation.  A fragment records which   *)
(* piece of prompt text it is (block), which variant of that text (note)    *)
(* and the values interpolated into it (arg, a sequence of texts).          *)

Fragment(block, note, arg) == [block |-> block, note |-> note, arg |-> arg]

\* if (x) prompt += ...
When(cond, fragments) == IF cond THEN fragments ELSE <<>>

\* Mutant: 'random' is recognised in lower case only.
NotRandom_CaseSensitive(o) == Truthy(o) /\ Val(o) # S_random

\* theme && theme.toLowerCase() !== 'random'; the same test is made of style.
NotRandom(o) == Truthy(o) /\ toLowerCase(Val(o)) # S_random

\* Mutant: only the title prompt states the persona.
PersonaBlock_TitleOnly(kind, userBio) ==
    When(Truthy(userBio) /\ kind = "title",
         <<Fragment("persona", kind, <<Val(userBio)>>)>>)

\* if (this.userBio) prompt += ... ${this.userBio} ...
PersonaBlock(kind, userBio) ==
    When(Truthy(userBio), <<Fragment("persona", kind, <<Val(userBio)>>)>>)

\* Mutant: the theme is stated whenever it is given, 'random' included.
ThemeBlock_AnyTheme(kind, theme) ==
    When(Truthy(theme), <<Fragment("theme", kind, <<Val(theme)>>)>>)

\* if (theme && theme.toLowerCase() !== 'random') prompt += ... ${theme} ...
ThemeBlock(kind, theme) ==
    When(NotRandom(theme), <<Fragment("theme", kind, <<Val(theme)>>)>>)

\* Mutant: only the title prompt states the guidance.
GuidanceBlock_TitleOnly(kind, guidance) ==
    When(Truthy(guidance) /\ kind = "title",
         <<Fragment("guidance", kind, <<Val(guidance)>>)>>)

\* if (this.guidance) prompt += ... ${this.guidance} ...
GuidanceBlock(kind, guidance) ==
    When(Truthy(guidance), <<Fragment("guidance", kind, <<Val(guidance)>>)>>)

\* The closing instruction: respond with only the title / quote / line / word.
FormatBlock(kind) == <<Fragment("format", kind, <<>>)>>

\* Mutant: the poem is shown as it was before its last line was added.
PoemSoFar_WithoutLastLine(kind, p) ==
    <<Fragment("context", kind,
               <<p.title>> \o (IF Len(p.lines) > 1
                               THEN SubSeq(p.lines, 1, Len(p.lines) - 1)
                               ELSE p.lines))>>

\* Mutant: the poem is shown without its title.
PoemSoFar_WithoutTitle(kind, p) == <<Fragment("context", kind, p.lines)>>

\* Title: ${poem.title} and ${poem.lines.join('\n')}
PoemSoFar(kind, p) == <<Fragment("context", kind, <<p.title>> \o p.lines)>>

\* generateTitle(): the prompt.
TitlePrompt(userBio, guidance, theme) ==
    <<Fragment("task", "title", <<>>)>>
    \o PersonaBlock("title", userBio)
    \o ThemeBlock("title", theme)
    \o GuidanceBlock("title", guidance)
    \o FormatBlock("title")

\* generateSeedLine(): the prompt.
SeedPrompt(userBio, guidance) ==
    <<Fragment("task", "seed", <<>>)>>
    \o PersonaBlock("seed", userBio)
    \o GuidanceBlock("seed", guidance)
    \o FormatBlock("seed")

\* Mutant: the directives are given one line later.
HaikuDirective_OneLater(len) ==
    IF len = 2 THEN <<Fragment("directive", "7 syllables", <<>>)>>
    ELSE IF len = 3 THEN <<Fragment("directive", "5 syllables, conclude", <<>>)>>
    ELSE <<>>

\* generateNextLine(): the directive for the line that follows len lines
\* of a haiku.
HaikuDirective(len) ==
    IF len = 1 THEN <<Fragment("directive", "7 syllables", <<>>)>>
    ELSE IF len = 2 THEN <<Fragment("directive", "5 syllables, conclude", <<>>)>>
    ELSE <<>>

\* generateNextLine(): the same for a limerick, then the rhyme scheme.
LimerickDirective(len) ==
    (IF len \in {1, 2, 5} THEN <<Fragment("directive", "rhyme with line 1", <<>>)>>
     ELSE IF len \in {3, 4} THEN <<Fragment("directive", "rhyme with line 3", <<>>)>>
     ELSE <<>>)
    \o <<Fragment("scheme", "AABBA", <<>>)>>

\* generateNextLine(): the rhyme scheme of a sonnet, then the directive.
SonnetDirective(len) ==
    <<Fragment("scheme", "ABAB CDCD EFEF GG", <<>>)>>
    \o (IF len \in {1, 3, 5, 7, 9, 11}
        THEN <<Fragment("directive", "rhyme with first line of quatrain", <<>>)>>
        ELSE IF len \in {2, 4, 6, 8, 10, 12}
        THEN <<Fragment("directive", "rhyme with second line of quatrain", <<>>)>>
        ELSE IF len \in {13, 14}
        THEN <<Fragment("directive", "rhyming couplet", <<>>)>>
        ELSE <<>>)

\* Mutant: the style is compared as written, without toLowerCase().
StyleBlock_CaseSensitive(style, len) ==
    When(NotRandom(style),
         <<Fragment("style", "line", <<Val(style)>>)>>
         \o (IF Val(style) = S_haiku THEN HaikuDirective(len)
             ELSE IF Val(style) = S_limerick THEN LimerickDirective(len)
             ELSE IF Val(style) = S_sonnet THEN SonnetDirective(len)
             ELSE <<>>))

\* generateNextLine(): if (style && style.toLowerCase() !== 'random') ...
StyleBlock(style, len) ==
    When(NotRandom(style),
         LET lowerCaseStyle == toLowerCase(Val(style))
         IN <<Fragment("style", "line", <<Val(style)>>)>>
            \o (IF lowerCaseStyle = S_haiku THEN HaikuDirective(len)
                ELSE IF lowerCaseStyle = S_limerick THEN LimerickDirective(len)
                ELSE IF lowerCaseStyle = S_sonnet THEN SonnetDirective(len)
                ELSE <<>>))

\* Mutant: the style is stated before the guidance.
NextLinePrompt_StyleBeforeGuidance(userBio, guidance, p, theme, style) ==
    PoemSoFar("line", p)
    \o PersonaBlock("line", userBio)
    \o <<Fragment("task", "line", <<>>)>>
    \o ThemeBlock("line", theme)
    \o StyleBlock(style, Len(p.lines))
    \o GuidanceBlock("line", guidance)
    \o FormatBlock("line")

\* generateNextLine(): the prompt.
NextLinePrompt(userBio, guidance, p, theme, style) ==
    PoemSoFar("line", p)
    \o PersonaBlock("line", userBio)
    \o <<Fragment("task", "line", <<>>)>>
    \o ThemeBlock("line", theme)
    \o GuidanceBlock("line", guidance)
    \o StyleBlock(style, Len(p.lines))
    \o FormatBlock("line")

\* checkIfComplete(): the prompt of the judgment request.  The branch for a
\* poem shorter than the guidance count returns without a request.
JudgePrompt(guidance, p, guidanceLineCount) ==
    PoemSoFar("judge", p)
    \o <<Fragment("count", "judge", <<NumText(Len(p.lines))>>)>>
    \o (IF NumTruthy(guidanceLineCount)
        THEN <<Fragment("requirement", "judge",
                        <<NumText(Val(guidanceLineCount)), NumText(Len(p.lines))>>),
               Fragment("task", "judge at required length",
                        <<NumText(Val(guidanceLineCount))>>)>>
        ELSE <<Fragment("task", "judge", <<>>)>>)
    \o When(Truthy(guidance) /\ ~NumTruthy(guidanceLineCount),
            <<Fragment("guidance", "judge", <<Val(guidance)>>)>>)
    \o FormatBlock("judge")

---------------------------------------------------------------------------
(* The command line: the .poet file of a directory, the bio file of the    *)
(* home directory, and how the create command puts the options of a run    *)
(* together.  A PoetConfig and the options of a command are records of      *)
(* optional texts.                                                          *)

T_Random == <<"R", "a", "n", "d", "o", "m">>
T_instruct == <<"i", "n", "s", "t", "r", "u", "c", "t">>
T_8b == <<"8", "b">>

\* const suggestedThemes = [...]
suggestedThemes ==
    <<<<"N", "a", "t", "u", "r", "e">>,
      <<"L", "o", "v", "e">>,
      <<"T", "e", "c", "h", "n", "o", "l", "o", "g", "y">>,
      <<"E", "x", "i", "s", "t", "e", "n", "t", "i", "a", "l", "i", "s", "m">>,
      <<"U", "r", "b", "a", "n", " ", "L", "i", "f", "e">>,
      <<"D", "r", "e", "a", "m", "s">>,
      <<"L", "o", "s", "s">>,
      <<"H", "o", "p", "e">>,
      <<"A", "d", "v", "e", "n", "t", "u", "r", "e">>,
      <<"S", "o", "l", "i", "t", "u", "d", "e">>,
      <<"T", "i", "m", "e">>,
      <<"M", "e", "m", "o", "r", "y">>,
      <<"R", "a", "n", "d", "o", "m">>>>

\* const suggestedStyles = [...]
suggestedStyles ==
    <<<<"F", "r", "e", "e", " ", "V", "e", "r", "s", "e">>,
      <<"H", "a", "i", "k", "u">>,
      <<"S", "o", "n", "n", "e", "t">>,
      <<"L", "i", "m", "e", "r", "i", "c", "k">>,
      <<"B", "l", "a", "n", "k", " ", "V", "e", "r", "s", "e">>,
      <<"O", "d", "e">>,
      <<"E", "l", "e", "g", "y">>,
      <<"B", "a", "l", "l", "a", "d">>,
      <<"S", "e", "s", "t", "i", "n", "a">>,
      <<"A", "c", "r", "o", "s", "t", "i", "c">>,
      <<"H", "i", "p", "-", "H", "o", "p">>,
      <<"R", "a", "n", "d", "o", "m">>>>

\* getRandomSelection(array, excludeItems): the items Math.random() can pick.
getRandomSelection(array, excludeItems) ==
    {array[i] : i \in {j \in 1..Len(array) : array[j] \notin excludeItems}}

\* The directories a command is started in; Home is os.homedir().
Home == "home"
Dirs == {Home, "project"}

ConfigKeys == {"model", "title", "seedLine", "theme", "style"}

\* JSON.stringify(config): the JSON text, as the members it has.  A member
\* whose value is undefined is left out; an empty string is kept.
stringify(config) ==
    [json |-> TRUE,
     members |-> {<<k, Val(config[k])>> : k \in {key \in ConfigKeys : IsSome(config[key])}}]

\* A text that is not JSON.
NotJson == [json |-> FALSE, members |-> {}]

\* A file that fs.readFile can read, as fs.writeFile leaves it, and one it
\* cannot read (it throws an error other than ENOENT).  A missing file is
\* None.
File(content) == [readable |-> TRUE, content |-> content]
Unreadable(content) == [readable |-> FALSE, content |-> content]

\* JSON.parse(content) as PoetConfig: the members by key, undefined for a
\* key the text does not have.  (content.json: the text parses.)
parse(content) ==
    [k \in ConfigKeys |->
        IF \E m \in content.members : m[1] = k
        THEN Some((CHOOSE m \in content.members : m[1] = k)[2])
        ELSE None]

\* Mutant: a file that does not parse is taken for a configuration
\* without values.
loadConfig_EmptyOnError(file) ==
    IF file = None THEN None
    ELSE IF ~Val(file).readable THEN None
    ELSE Some(parse(Val(file).content))

\* ConfigService.loadConfig(): null when the file is missing (ENOENT), when
\* readFile throws another error and when JSON.parse throws; the parsed
\* object otherwise.
loadConfig(file) ==
    IF file = None THEN None
    ELSE IF ~Val(file).readable THEN None
    ELSE IF ~Val(file).content.json THEN None
    ELSE Some(parse(Val(file).content))

\* ConfigService.constructor: path.join(workingDir, '.poet'), by the
\* directory that holds the file.
configFilePath(workingDir) == workingDir

\* BioService.loadBio(): null when the file is missing or readFile throws,
\* else { content: content.trim() }.
loadBio(file) ==
    IF file = None THEN None
    ELSE IF ~Val(file).readable THEN None
    ELSE Some([content |-> trim(Val(file).content)])

\* runCli: userBioData?.content || null
contentOrNull(userBioData) ==
    IF userBioData = None THEN None
    ELSE IF Val(userBioData).content = <<>> THEN None
    ELSE Some(Val(userBioData).content)

\* poetConfig?.key
Get(poetConfig, key) == IF poetConfig = None THEN None ELSE Val(poetConfig)[key]

\* Mutant: a || b takes a whenever it is given, the empty string included.
Or_Given(a, b) == IF IsSome(a) THEN a ELSE b

\* a || b
Or(a, b) == IF Truthy(a) THEN a ELSE b

\* The first name of the list that contains sub, if any: models.find(...).
RECURSIVE find(_, _)
find(models, sub) ==
    IF models = <<>> THEN None
    ELSE IF includes(Head(models), sub) THEN Some(Head(models))
    ELSE find(Tail(models), sub)

\* Mutant: the first listed model is taken whatever its name.
findBestAvailableModel_First(models) ==
    IF models = <<>> THEN None ELSE Some(models[1])

\* OllamaService.findBestAvailableModel(): None when it throws (no model
\* is installed), else the name it returns.
findBestAvailableModel(models) ==
    IF models = <<>> THEN None
    ELSE IF find(models, T_instruct) # None THEN find(models, T_instruct)
    ELSE IF find(models, T_8b) # None THEN find(models, T_8b)
    ELSE Some(models[1])

\* runStandardMode: if (value === 'Random') value = getRandomSelection(...);
\* the values the run can get.
Randomised(value, suggested) ==
    IF value = Some(T_Random)
    THEN {Some(x) : x \in getRandomSelection(suggested, {T_Random})}
    ELSE {value}

\* What is installed, the options of the commands and the bio files the
\* model tries.
InstalledModels ==
    {<<>>,
     <<<<"p", "h", "i">>>>,
     <<<<"p", "h", "i">>, <<"l", "l", "a", "m", "a", "3", ":", "8", "b">>, <<"q", "w", "e", "n", "-", "i", "n", "s", "t", "r", "u", "c", "t">>, <<"m", "i", "s", "t", "r", "a", "l", "-", "i", "n", "s", "t", "r", "u", "c", "t">>>>,
     <<<<"p", "h", "i">>, <<"l", "l", "a", "m", "a", "3", ":", "8", "b">>>>}

T_m1 == <<"m", "1">>
T_m2 == <<"m", "2">>
T_Old == <<"O", "l", "d">>
T_Love == <<"L", "o", "v", "e">>

NoCliOptions ==
    [model |-> None, title |-> None, seedLine |-> None, theme |-> None,
     style |-> None, guidance |-> None]

\* create: no option; every option; a model, an empty title and a theme;
\* a title alone; 'Random' as theme; 'Random' as style.
CreateOptionSet ==
    {NoCliOptions,
     [model |-> Some(T_m1), title |-> Some(<<"M", "y">>),
      seedLine |-> Some(<<"S", "e", "e", "d">>), theme |-> Some(T_Sea),
      style |-> Some(<<"H", "a", "i", "k", "u">>), guidance |-> Some(T_nicePoem)],
     [NoCliOptions EXCEPT !.model = Some(T_m1), !.title = Some(<<>>),
                          !.theme = Some(T_Sea)],
     [NoCliOptions EXCEPT !.title = Some(<<"M", "y">>)],
     [NoCliOptions EXCEPT !.model = Some(T_m1), !.theme = Some(T_Random)],
     [NoCliOptions EXCEPT !.model = Some(T_m1), !.style = Some(T_Random)]}

\* save-config: no option; a title and 'Random' as theme; all five options.
SaveOptionSet ==
    {NoCliOptions,
     [NoCliOptions EXCEPT !.title = Some(T_Old), !.theme = Some(T_Random)],
     [model |-> Some(T_m2), title |-> Some(T_Old),
      seedLine |-> Some(<<"C", "a", "r", "p", "e">>),
      theme |-> Some(T_Love), style |-> Some(<<"S", "o", "n", "n", "e", "t">>),
      guidance |-> None]}

BioFileSet == {None, Some(File(<<" ", "B", "i", "o", "\n">>))}

---------------------------------------------------------------------------
(* State.  One PoetAgent instance; RunIds are the invocations of run() on   *)
(* it.  The fields userBio and guidance belong to the instance; everything   *)
(* else is local to one invocation.                                         *)

RunIds == {1, 2}

VARIABLES
    this_userBio,   \* PoetAgent.userBio
    this_guidance,  \* PoetAgent.guidance
    pc,             \* where each invocation of run() is suspended
    options,        \* the RunOptions an invocation was called with
    finalTitle,     \* run(): const finalTitle
    poem,           \* run(): the Poem (title, lines); lines is empty before new Poem
    isComplete,     \* run(): let isComplete
    maxLines,       \* run(): let maxLines
    checkResult,    \* the value a checkIfComplete that made no request resolves to
    calls,          \* the llmService.generate requests issued, in order
    prompt,         \* the prompt of the request an invocation issued last
    returned,       \* how many generate requests of an invocation have returned
    lastResponse,   \* per request kind, the response generate returned last
    extractArg,     \* the argument of a direct call of extractLineCount
    extractResult,  \* None before the call returns, then Some(what it returned)
    files,          \* per directory, its .poet file: None when there is none
    bioFile,        \* the file ~/.me.toon: None when there is none
    command,        \* the command the last poet process ran
    cwd,            \* process.cwd() of that process
    cliOptions,     \* the options commander parsed for it
    lastSaved,      \* the configuration saveConfig wrote last, None before
    modelName,      \* runStandardMode: let modelName, once it has a value
    agentRun,       \* the options runStandardMode passed to agent.run
    listedModels,   \* what ollama.list() answers a direct call of findBestAvailableModel
    selectedModel,  \* None before that call ends, then Some(its outcome)
    runCli_poetConfig,     \* runCli: const poetConfig, of the last process
    runCli_userBio         \* runCli: const userBio, of the last process

vars == <<this_userBio, this_guidance, pc, options, finalTitle, poem,
          isComplete, maxLines, checkResult, calls, prompt, returned,
          lastResponse, extractArg, extractResult, files, bioFile, command,
          cwd, cliOptions, lastSaved, modelName, agentRun, listedModels,
          selectedModel, runCli_poetConfig, runCli_userBio>>

\* The variables of a direct call of extractLineCount.
extractVars == <<extractArg, extractResult>>

\* The variables of the command line.
cliVars ==
    <<files, bioFile, command, cwd, cliOptions, lastSaved, modelName, agentRun,
      listedModels, selectedModel, runCli_poetConfig, runCli_userBio>>

\* The variables of a direct call of findBestAvailableModel.
findVars == <<listedModels, selectedModel>>

\* No poet process has run, and no file exists.
NoCommand ==
    /\ files = [d \in Dirs |-> None]
    /\ bioFile = None
    /\ command = "none"
    /\ cwd = Home
    /\ cliOptions = NoCliOptions
    /\ lastSaved = None
    /\ modelName = None
    /\ agentRun = None
    /\ listedModels = <<>>
    /\ selectedModel = None
    /\ runCli_poetConfig = None
    /\ runCli_userBio = None

Kinds == {"title", "seed", "line", "judge"}

NoOptions ==
    [title |-> None, seedLine |-> None, theme |-> None,
     style |-> None, userBio |-> None, guidance |-> None]

\* An upper limit on the requests of one run that the model explores: title,
\* seed, and one next-line and one judgment request per line.
MaxCalls == 2 * (MaxGuidanceCount + SonnetLines)

Init ==
    /\ this_userBio = None
    /\ this_guidance = None
    /\ pc = [r \in RunIds |-> "idle"]
    /\ options = [r \in RunIds |-> NoOptions]
    /\ finalTitle = [r \in RunIds |-> <<>>]
    /\ poem = [r \in RunIds |-> [title |-> <<>>, lines |-> <<>>]]
    /\ isComplete = [r \in RunIds |-> FALSE]
    /\ maxLines = [r \in RunIds |-> DefaultMaxLines]
    /\ checkResult = [r \in RunIds |-> FALSE]
    /\ calls = [r \in RunIds |-> <<>>]
    /\ prompt = [r \in RunIds |-> <<>>]
    /\ returned = [r \in RunIds |-> 0]
    /\ lastResponse = [r \in RunIds |-> [k \in Kinds |-> None]]
    /\ extractArg = None
    /\ extractResult = None
    /\ NoCommand

---------------------------------------------------------------------------
(* The synchronous stretches of run(): what one invocation does between    *)
(* two awaits.  Each operator is a part of an action; it reads the locals   *)
(* that the action has already assigned (primed) and decides where the      *)
(* invocation is suspended next.  opts are the invocation's options.        *)

Waiting(r) == pc[r] \in {"title", "seed", "line", "check", "judge"}

\* await this.llmService.generate(prompt): the request is issued and the
\* invocation is suspended until the response arrives.
Generate(r, kind, text) ==
    /\ pc' = [pc EXCEPT ![r] = kind]
    /\ calls' = [calls EXCEPT
                    ![r] = Append(@, [kind |-> kind, len |-> Len(poem'[r].lines)])]
    /\ prompt' = [prompt EXCEPT ![r] = text]

\* while (!isComplete && poem.lines.length < maxLines) generateNextLine(...);
\* after the loop, return poem.
WhileLoop(r, opts) ==
    IF LoopCondition(isComplete'[r], Len(poem'[r].lines), maxLines'[r])
    THEN /\ Generate(r, "line",
                     NextLinePrompt(this_userBio', this_guidance', poem'[r],
                                    opts.theme, opts.style))
         /\ UNCHANGED checkResult
    ELSE /\ pc' = [pc EXCEPT ![r] = "done"]
         /\ UNCHANGED <<calls, prompt, checkResult>>

\* checkIfComplete resolves without a request.
ResolveCheck(r, value) ==
    /\ pc' = [pc EXCEPT ![r] = "check"]
    /\ checkResult' = [checkResult EXCEPT ![r] = value]
    /\ UNCHANGED <<calls, prompt>>

\* checkIfComplete up to its first await: it resolves without a request
\* (pc "check") or issues the judgment request (pc "judge").
CheckIfComplete(r, opts) ==
    LET guidanceLineCount == LineCounts[this_guidance]
        len == Len(poem'[r].lines)
    IN IF NumTruthy(guidanceLineCount) /\ len < Val(guidanceLineCount)
       THEN ResolveCheck(r, FALSE)
       ELSE IF FixedCountReached(opts.style, len)
       THEN ResolveCheck(r, TRUE)
       ELSE IF NumTruthy(guidanceLineCount) /\ ~(len >= Val(guidanceLineCount))
       THEN ResolveCheck(r, FALSE)
       ELSE /\ Generate(r, "judge",
                        JudgePrompt(this_guidance', poem'[r], guidanceLineCount))
            /\ UNCHANGED checkResult

\* The loop body after poem.addLine(nextLine).
AfterAppend(r, opts) ==
    IF ShouldCheck(LineCounts[this_guidance], Len(poem'[r].lines), maxLines'[r])
    THEN CheckIfComplete(r, opts)
    ELSE WhileLoop(r, opts)

\* Mutant: the ceiling is resolved from the guidance field of the agent.
CreatePoem_SharedCeiling(r, firstLine, opts) ==
    /\ poem' = [poem EXCEPT ![r] = [title |-> finalTitle'[r], lines |-> <<firstLine>>]]
    /\ isComplete' = [isComplete EXCEPT ![r] = FALSE]
    /\ maxLines' = [maxLines EXCEPT ![r] = ResolveMaxLines(this_guidance', opts.style)]
    /\ WhileLoop(r, opts)

\* new Poem(finalTitle, [firstLine]); isComplete, maxLines; the loop.
CreatePoem(r, firstLine, opts) ==
    /\ poem' = [poem EXCEPT ![r] = [title |-> finalTitle'[r], lines |-> <<firstLine>>]]
    /\ isComplete' = [isComplete EXCEPT ![r] = FALSE]
    /\ maxLines' = [maxLines EXCEPT ![r] = ResolveMaxLines(opts.guidance, opts.style)]
    /\ WhileLoop(r, opts)

\* Mutant: a seed line is generated only when none is given at all.
AfterTitle_UnlessGiven(r, opts) ==
    IF IsSome(opts.seedLine)
    THEN CreatePoem(r, Val(opts.seedLine), opts)
    ELSE /\ UNCHANGED <<poem, isComplete, maxLines, checkResult>>
         /\ Generate(r, "seed", SeedPrompt(this_userBio', this_guidance'))

\* const firstLine = seedLine || await this.generateSeedLine()
AfterTitle(r, opts) ==
    IF Truthy(opts.seedLine)
    THEN CreatePoem(r, Val(opts.seedLine), opts)
    ELSE /\ UNCHANGED <<poem, isComplete, maxLines, checkResult>>
         /\ Generate(r, "seed", SeedPrompt(this_userBio', this_guidance'))

\* const finalTitle = title || await this.generateTitle(theme)
AfterStart(r, opts) ==
    IF Truthy(opts.title)
    THEN /\ finalTitle' = [finalTitle EXCEPT ![r] = Val(opts.title)]
         /\ AfterTitle(r, opts)
    ELSE /\ UNCHANGED <<finalTitle, poem, isComplete, maxLines, checkResult>>
         /\ Generate(r, "title",
                     TitlePrompt(this_userBio', this_guidance', opts.theme))

\* Mutant: the new line takes the place of the last one.
addLine_Overwrite(p, line) ==
    [p EXCEPT !.lines = SubSeq(@, 1, Len(@) - 1) \o <<line>>]

\* poem.addLine(line)
addLine(p, line) == [p EXCEPT !.lines = Append(@, line)]

\* The response of the pending request arrives.
Returned(r, kind, response) ==
    /\ lastResponse' = [lastResponse EXCEPT ![r][kind] = Some(response)]
    /\ returned' = [returned EXCEPT ![r] = @ + 1]

---------------------------------------------------------------------------
(* Actions: the call of run() and the resumption after each await.         *)

\* Mutant: the fields are assigned only when the option is given.
Run_KeepFields(r, OptionSet) ==
    /\ pc[r] = "idle"
    /\ \E opts \in OptionSet :
           /\ options' = [options EXCEPT ![r] = opts]
           /\ this_userBio' = (IF IsSome(opts.userBio) THEN opts.userBio ELSE this_userBio)
           /\ this_guidance' = (IF IsSome(opts.guidance) THEN opts.guidance ELSE this_guidance)
           /\ AfterStart(r, opts)
    /\ UNCHANGED <<returned, lastResponse, extractVars, cliVars>>

\* run(options) up to its first await, for some options of OptionSet.
Run(r, OptionSet) ==
    /\ pc[r] = "idle"
    /\ \E opts \in OptionSet :
           /\ options' = [options EXCEPT ![r] = opts]
           /\ this_userBio' = opts.userBio
           /\ this_guidance' = opts.guidance
           /\ AfterStart(r, opts)
    /\ UNCHANGED <<returned, lastResponse, extractVars, cliVars>>

\* generateTitle resumes with the response and returns the cleaned title.
GenerateTitleReturns(r, response) ==
    /\ pc[r] = "title"
    /\ Len(calls[r]) < MaxCalls
    /\ UNCHANGED <<this_userBio, this_guidance, options, extractVars, cliVars>>
    /\ finalTitle' = [finalTitle EXCEPT ![r] = CleanTitle(response)]
    /\ AfterTitle(r, options[r])
    /\ Returned(r, "title", response)

\* generateSeedLine resumes with the response and returns it trimmed.
GenerateSeedLineReturns(r, response) ==
    /\ pc[r] = "seed"
    /\ Len(calls[r]) < MaxCalls
    /\ UNCHANGED <<this_userBio, this_guidance, options, extractVars, cliVars>>
    /\ UNCHANGED finalTitle
    /\ CreatePoem(r, trim(response), options[r])
    /\ Returned(r, "seed", response)

\* generateNextLine resumes with the response; the line is appended.
GenerateNextLineReturns(r, response) ==
    /\ pc[r] = "line"
    /\ Len(calls[r]) < MaxCalls
    /\ UNCHANGED <<this_userBio, this_guidance, options, extractVars, cliVars>>
    /\ poem' = [poem EXCEPT ![r] = addLine(@, trim(response))]
    /\ UNCHANGED <<finalTitle, isComplete, maxLines>>
    /\ AfterAppend(r, options[r])
    /\ Returned(r, "line", response)

\* checkIfComplete resolved without a request; run() resumes with its value.
CheckIfCompleteResolves(r) ==
    /\ pc[r] = "check"
    /\ Len(calls[r]) < MaxCalls
    /\ UNCHANGED <<this_userBio, this_guidance, options, extractVars, cliVars>>
    /\ isComplete' = [isComplete EXCEPT ![r] = checkResult[r]]
    /\ UNCHANGED <<finalTitle, poem, maxLines>>
    /\ WhileLoop(r, options[r])
    /\ UNCHANGED <<returned, lastResponse>>

\* checkIfComplete resumes with the judgment response.
JudgmentReturns(r, response) ==
    /\ pc[r] = "judge"
    /\ Len(calls[r]) < MaxCalls
    /\ UNCHANGED <<this_userBio, this_guidance, options, extractVars, cliVars>>
    /\ isComplete' = [isComplete EXCEPT ![r] = Affirms(response)]
    /\ UNCHANGED <<finalTitle, poem, maxLines>>
    /\ WhileLoop(r, options[r])
    /\ Returned(r, "judge", response)

\* Some pending await of invocation r resumes.
Returns(r) ==
    \/ \E response \in TitleResponses : GenerateTitleReturns(r, response)
    \/ \E response \in SeedResponses : GenerateSeedLineReturns(r, response)
    \/ \E response \in LineResponses(Len(poem[r].lines)) :
           GenerateNextLineReturns(r, response)
    \/ CheckIfCompleteResolves(r)
    \/ \E response \in JudgeResponses : JudgmentReturns(r, response)

\* One invocation of run() on a fresh agent.
Next ==
    \/ Run(1, RunOptions)
    \/ \E response \in TitleResponses : GenerateTitleReturns(1, response)
    \/ \E response \in SeedResponses : GenerateSeedLineReturns(1, response)
    \/ \E response \in LineResponses(Len(poem[1].lines)) :
           GenerateNextLineReturns(1, response)
    \/ CheckIfCompleteResolves(1)
    \/ \E response \in JudgeResponses : JudgmentReturns(1, response)

Spec == Init /\ [][Next]_vars

\* One invocation of run() with a theme, a persona and a style among its
\* options.
NextPrompt ==
    \/ Run(1, PromptOptions)
    \/ Returns(1)

PromptSpec == Init /\ [][NextPrompt]_vars

---------------------------------------------------------------------------
(* Failure of the generation capability: llmService.generate rejects.       *)
(* Neither run() nor the methods it calls catch, so the rejection of the    *)
(* awaited request ends the invocation: pc "failed" is run() rejected with   *)
(* the error.                                                               *)

\* Mutant: the request that failed is issued again.
GenerateFails_Retry(r) ==
    /\ pc[r] \in Kinds
    /\ Len(calls[r]) < MaxCalls
    /\ calls' = [calls EXCEPT ![r] = Append(@, @[Len(@)])]
    /\ UNCHANGED <<this_userBio, this_guidance, pc, options, finalTitle, poem,
                   isComplete, maxLines, checkResult, prompt, returned,
                   lastResponse, extractVars, cliVars>>

\* The pending request of invocation r fails.
GenerateFails(r) ==
    /\ pc[r] \in Kinds
    /\ pc' = [pc EXCEPT ![r] = "failed"]
    /\ UNCHANGED <<this_userBio, this_guidance, options, finalTitle, poem,
                   isComplete, maxLines, checkResult, calls, prompt, returned,
                   lastResponse, extractVars, cliVars>>

\* One invocation of run() with a capability that may fail.
NextFail ==
    \/ Run(1, RunOptions)
    \/ Returns(1)
    \/ GenerateFails(1)

FailSpec == Init /\ [][NextFail]_vars

---------------------------------------------------------------------------
(* Two invocations of run() on the same PoetAgent, interleaved at their     *)
(* awaits.  The first has a persona and a guidance count, the second has    *)
(* another persona and no guidance or another count.                        *)

ConcGuidanceCount == 4

FirstRunOptions ==
    [title : {Some(<<"M", "y">>)}, seedLine : {Some(<<"S", "e", "e", "d">>)},
     theme : {None}, style : {None}, userBio : {Some(T_Bio)},
     guidance : {Some(CountGuidance(ConcGuidanceCount))}]

SecondRunOptions ==
    [title : {None}, seedLine : {None}, theme : {None},
     style : {None, Some(S_haiku)}, userBio : {Some(T_Sea)},
     guidance : {None, Some(CountGuidance(ConcGuidanceCount + 1))}]

NextConc ==
    \/ Run(1, FirstRunOptions)
    \/ Run(2, SecondRunOptions)
    \/ Returns(1)
    \/ Returns(2)

ConcSpec == Init /\ [][NextConc]_vars

\* Two overlapping invocations, the second of a style with a fixed count.
FixedFormRunOptions ==
    [title : {None}, seedLine : {None}, theme : {None},
     style : {Some(S_haiku)}, userBio : {Some(T_Sea)},
     guidance : {None, Some(CountGuidance(ConcGuidanceCount + 1))}]

NextCeiling ==
    \/ Run(1, FirstRunOptions)
    \/ Run(2, FixedFormRunOptions)
    \/ Returns(1)
    \/ Returns(2)

CeilingSpec == Init /\ [][NextCeiling]_vars

\* Every generation call of either invocation eventually returns.
FairCeilingSpec == CeilingSpec /\ WF_vars(Returns(1)) /\ WF_vars(Returns(2))

\* One invocation whose title and seed line are absent, empty or given.
OrderOptions ==
    [title : {None, Some(<<>>), Some(<<"M", "y">>)},
     seedLine : {None, Some(<<>>), Some(<<"S", "e", "e", "d">>)},
     theme : {None},
     style : {None, Some(S_haiku), Some(<<"L", "i", "m", "e", "r", "i", "c", "k">>)},
     userBio : {None},
     guidance : {None, Some(CountGuidance(ConcGuidanceCount))}]

NextOrder ==
    \/ Run(1, OrderOptions)
    \/ Returns(1)

OrderSpec == Init /\ [][NextOrder]_vars

\* Two invocations on one agent, the second called after the first has
\* returned: `await agent.run(a); await agent.run(b)`.
LaterRunOptions ==
    [title : {None}, seedLine : {None}, theme : {None},
     style : {None, Some(S_haiku)}, userBio : {None, Some(T_Sea)},
     guidance : {None, Some(CountGuidance(ConcGuidanceCount + 1))}]

RunAfter(first, r, OptionSet) ==
    /\ pc[first] = "done"
    /\ Run(r, OptionSet)

NextSeq ==
    \/ Run(1, FirstRunOptions)
    \/ RunAfter(1, 2, LaterRunOptions)
    \/ Returns(1)
    \/ Returns(2)

SeqSpec == Init /\ [][NextSeq]_vars

---------------------------------------------------------------------------
(* A direct call of extractLineCount on a guidance text.                    *)

runVars ==
    <<this_userBio, this_guidance, pc, options, finalTitle, poem, isComplete,
      maxLines, checkResult, calls, prompt, returned, lastResponse>>

InitExtract ==
    /\ this_userBio = None
    /\ this_guidance = None
    /\ pc = [r \in RunIds |-> "idle"]
    /\ options = [r \in RunIds |-> NoOptions]
    /\ finalTitle = [r \in RunIds |-> <<>>]
    /\ poem = [r \in RunIds |-> [title |-> <<>>, lines |-> <<>>]]
    /\ isComplete = [r \in RunIds |-> FALSE]
    /\ maxLines = [r \in RunIds |-> DefaultMaxLines]
    /\ checkResult = [r \in RunIds |-> FALSE]
    /\ calls = [r \in RunIds |-> <<>>]
    /\ prompt = [r \in RunIds |-> <<>>]
    /\ returned = [r \in RunIds |-> 0]
    /\ lastResponse = [r \in RunIds |-> [k \in Kinds |-> None]]
    /\ extractArg \in ExtractInputs
    /\ extractResult = None
    /\ NoCommand

\* this.extractLineCount(guidance) is called and returns.
ExtractLineCount ==
    /\ extractResult = None
    /\ extractResult' = Some(extractLineCount(extractArg))
    /\ UNCHANGED <<extractArg, runVars, cliVars>>

NextExtract == ExtractLineCount

ExtractSpec == InitExtract /\ [][NextExtract]_vars

---------------------------------------------------------------------------
(* The poet command.  One action is one process: runCli() loads the        *)
(* configuration of the working directory and the bio, then runs the       *)
(* command.  The create command is followed up to its call of agent.run.   *)

\* runStandardMode(options, poetConfig, userBio).  When no model is given
\* the model is looked up in what Ollama lists at that moment; when the
\* lookup throws, handleError ends the process and agent.run is not reached.
runStandardMode(opts, poetConfig, userBio) ==
    LET given == Or(opts.model, Get(poetConfig, "model"))
    IN \E found \in (IF Truthy(given) THEN {given}
                     ELSE {findBestAvailableModel(models) : models \in InstalledModels}) :
           IF found = None
           THEN /\ modelName' = None
                /\ agentRun' = None
           ELSE /\ modelName' = found
                /\ \E theme \in Randomised(Or(opts.theme, Get(poetConfig, "theme")),
                                           suggestedThemes),
                      style \in Randomised(Or(opts.style, Get(poetConfig, "style")),
                                           suggestedStyles) :
                       agentRun' =
                           Some([title |-> Or(opts.title, Get(poetConfig, "title")),
                                 seedLine |-> Or(opts.seedLine,
                                                 Get(poetConfig, "seedLine")),
                                 theme |-> theme,
                                 style |-> style,
                                 userBio |-> Or(userBio, None),
                                 guidance |-> opts.guidance])

\* runCli, before the command is parsed: the configuration of the working
\* directory and the bio of the home directory are loaded.
LoadAtStart(dir) ==
    /\ runCli_poetConfig' = loadConfig(files[configFilePath(dir)])
    /\ runCli_userBio' = contentOrNull(loadBio(bioFile))

\* poet create <options>, started in directory dir.
Create(dir, opts) ==
    /\ command' = "create"
    /\ cwd' = dir
    /\ cliOptions' = opts
    /\ LoadAtStart(dir)
    /\ runStandardMode(opts, runCli_poetConfig', runCli_userBio')
    /\ UNCHANGED <<files, bioFile, lastSaved, runVars, extractVars, findVars>>

\* Mutant: the options given are merged into the configuration found.
SaveConfig_Merge(dir, opts) ==
    /\ command' = "save-config"
    /\ cwd' = dir
    /\ cliOptions' = opts
    /\ LoadAtStart(dir)
    /\ LET configToSave ==
               [k \in ConfigKeys |-> Or(opts[k], Get(loadConfig(files[dir]), k))]
       IN \E written \in BOOLEAN :
              IF written
              THEN /\ files' = [files EXCEPT
                                   ![configFilePath(dir)] =
                                       Some(File(stringify(configToSave)))]
                   /\ lastSaved' = Some(configToSave)
              ELSE UNCHANGED <<files, lastSaved>>
    /\ modelName' = None
    /\ agentRun' = None
    /\ UNCHANGED <<bioFile, runVars, extractVars, findVars>>

\* poet save-config <options>, started in directory dir: configToSave has
\* the five options as given; saveConfig writes it as JSON, or logs the
\* error when the file cannot be written.
SaveConfig(dir, opts) ==
    /\ command' = "save-config"
    /\ cwd' = dir
    /\ cliOptions' = opts
    /\ LoadAtStart(dir)
    /\ LET configToSave == [k \in ConfigKeys |-> opts[k]]
       IN \E written \in BOOLEAN :
              IF written
              THEN /\ files' = [files EXCEPT
                                   ![configFilePath(dir)] =
                                       Some(File(stringify(configToSave)))]
                   /\ lastSaved' = Some(configToSave)
              ELSE UNCHANGED <<files, lastSaved>>
    /\ modelName' = None
    /\ agentRun' = None
    /\ UNCHANGED <<bioFile, runVars, extractVars, findVars>>

\* The files the first command finds: no .poet anywhere or one in the home
\* directory that is not JSON, and some bio file or none.
InitCli ==
    /\ this_userBio = None
    /\ this_guidance = None
    /\ pc = [r \in RunIds |-> "idle"]
    /\ options = [r \in RunIds |-> NoOptions]
    /\ finalTitle = [r \in RunIds |-> <<>>]
    /\ poem = [r \in RunIds |-> [title |-> <<>>, lines |-> <<>>]]
    /\ isComplete = [r \in RunIds |-> FALSE]
    /\ maxLines = [r \in RunIds |-> DefaultMaxLines]
    /\ checkResult = [r \in RunIds |-> FALSE]
    /\ calls = [r \in RunIds |-> <<>>]
    /\ prompt = [r \in RunIds |-> <<>>]
    /\ returned = [r \in RunIds |-> 0]
    /\ lastResponse = [r \in RunIds |-> [k \in Kinds |-> None]]
    /\ extractArg = None
    /\ extractResult = None
    /\ files \in {[d \in Dirs |-> None],
                  [d \in Dirs |-> IF d = Home THEN Some(File(NotJson)) ELSE None]}
    /\ bioFile \in BioFileSet
    /\ command = "none"
    /\ cwd = Home
    /\ cliOptions = NoCliOptions
    /\ lastSaved = None
    /\ modelName = None
    /\ agentRun = None
    /\ listedModels = <<>>
    /\ selectedModel = None
    /\ runCli_poetConfig = None
    /\ runCli_userBio = None

NextCli ==
    \/ \E dir \in Dirs, opts \in CreateOptionSet : Create(dir, opts)
    \/ \E dir \in Dirs, opts \in SaveOptionSet : SaveConfig(dir, opts)

CliSpec == InitCli /\ [][NextCli]_vars

---------------------------------------------------------------------------
(* The loaders: create commands that find files of every kind.             *)

FullConfig ==
    [model |-> Some(T_m2), title |-> Some(T_Old),
     seedLine |-> Some(<<"C", "a", "r", "p", "e">>), theme |-> Some(T_Love),
     style |-> Some(<<"S", "o", "n", "n", "e", "t">>)]

EmptyConfig == [k \in ConfigKeys |-> None]

\* A .poet file is missing, cannot be read, is not JSON, has all five
\* values, or is the JSON object without members.
ConfigFileSet ==
    {None,
     Some(Unreadable(stringify(FullConfig))),
     Some(File(NotJson)),
     Some(File(stringify(FullConfig))),
     Some(File(stringify(EmptyConfig)))}

\* The bio file is missing, cannot be read, is empty, is blank, or has a
\* text with white space around it.
LoadBioFileSet ==
    {None,
     Some(Unreadable(<<" ", "B", "i", "o", "\n">>)),
     Some(File(<<>>)),
     Some(File(<<" ", "\n">>)),
     Some(File(<<" ", "M", "y", " ", "B", "i", "o", "\n">>))}

LoadOptionSet == {NoCliOptions, [NoCliOptions EXCEPT !.model = Some(T_m1)]}

InitLoad ==
    /\ this_userBio = None
    /\ this_guidance = None
    /\ pc = [r \in RunIds |-> "idle"]
    /\ options = [r \in RunIds |-> NoOptions]
    /\ finalTitle = [r \in RunIds |-> <<>>]
    /\ poem = [r \in RunIds |-> [title |-> <<>>, lines |-> <<>>]]
    /\ isComplete = [r \in RunIds |-> FALSE]
    /\ maxLines = [r \in RunIds |-> DefaultMaxLines]
    /\ checkResult = [r \in RunIds |-> FALSE]
    /\ calls = [r \in RunIds |-> <<>>]
    /\ prompt = [r \in RunIds |-> <<>>]
    /\ returned = [r \in RunIds |-> 0]
    /\ lastResponse = [r \in RunIds |-> [k \in Kinds |-> None]]
    /\ extractArg = None
    /\ extractResult = None
    /\ files \in [Dirs -> ConfigFileSet]
    /\ bioFile \in LoadBioFileSet
    /\ command = "none"
    /\ cwd = Home
    /\ cliOptions = NoCliOptions
    /\ lastSaved = None
    /\ modelName = None
    /\ agentRun = None
    /\ listedModels = <<>>
    /\ selectedModel = None
    /\ runCli_poetConfig = None
    /\ runCli_userBio = None

NextLoad == \E dir \in Dirs, opts \in LoadOptionSet : Create(dir, opts)

LoadSpec == InitLoad /\ [][NextLoad]_vars

---------------------------------------------------------------------------
(* Direct calls of findBestAvailableModel, for every list of at most       *)
(* MaxModels names that Ollama may answer.                                 *)

MaxModels == 3

ModelNames ==
    {<<"p", "h", "i">>,
     <<"l", "l", "a", "m", "a", "3", ":", "8", "b">>,
     <<"q", "w", "e", "n", "-", "i", "n", "s", "t", "r", "u", "c", "t">>,
     <<"m", "i", "s", "t", "r", "a", "l", ":", "8", "b", "-", "i", "n", "s", "t", "r", "u", "c", "t">>,
     <<"Y", "i", "-", "I", "n", "s", "t", "r", "u", "c", "t">>}

ModelLists == UNION {[1..n -> ModelNames] : n \in 0..MaxModels}

InitFind ==
    /\ this_userBio = None
    /\ this_guidance = None
    /\ pc = [r \in RunIds |-> "idle"]
    /\ options = [r \in RunIds |-> NoOptions]
    /\ finalTitle = [r \in RunIds |-> <<>>]
    /\ poem = [r \in RunIds |-> [title |-> <<>>, lines |-> <<>>]]
    /\ isComplete = [r \in RunIds |-> FALSE]
    /\ maxLines = [r \in RunIds |-> DefaultMaxLines]
    /\ checkResult = [r \in RunIds |-> FALSE]
    /\ calls = [r \in RunIds |-> <<>>]
    /\ prompt = [r \in RunIds |-> <<>>]
    /\ returned = [r \in RunIds |-> 0]
    /\ lastResponse = [r \in RunIds |-> [k \in Kinds |-> None]]
    /\ extractArg = None
    /\ extractResult = None
    /\ files = [d \in Dirs |-> None]
    /\ bioFile = None
    /\ command = "none"
    /\ cwd = Home
    /\ cliOptions = NoCliOptions
    /\ lastSaved = None
    /\ modelName = None
    /\ agentRun = None
    /\ listedModels \in ModelLists
    /\ selectedModel = None
    /\ runCli_poetConfig = None
    /\ runCli_userBio = None

\* OllamaService.findBestAvailableModel() is called and ends: it returns a
\* name or throws.
FindBestAvailableModel ==
    /\ selectedModel = None
    /\ selectedModel' = Some(findBestAvailableModel(listedModels))
    /\ UNCHANGED <<listedModels, runVars, extractVars, files, bioFile, command,
                   cwd, cliOptions, lastSaved, modelName, agentRun, runCli_poetConfig,
                   runCli_userBio>>

NextFind == FindBestAvailableModel

FindSpec == InitFind /\ [][NextFind]_vars

\* Every generation call eventually returns, and a resolved promise is
\* eventually resumed.
FairSpec == Spec /\ WF_vars(Returns(1))

---------------------------------------------------------------------------
(* Vocabulary of the properties.  The inputs are classified by how they     *)
(* were written down, not by the operators that model the code.             *)

HaikuStyles ==
    {Some(<<"H", "a", "i", "k", "u">>), Some(<<"h", "a", "i", "k", "u">>),
     Some(<<"H", "A", "I", "K", "U">>)}
LimerickStyles == {Some(<<"L", "i", "m", "e", "r", "i", "c", "k">>)}
SonnetStyles == {Some(<<"S", "o", "n", "n", "e", "t">>)}

\* The fixed count a style carries, 0 when it carries none.
FixedCountOf(style) ==
    IF style \in HaikuStyles THEN 3
    ELSE IF style \in LimerickStyles THEN 5
    ELSE IF style \in SonnetStyles THEN 14
    ELSE 0

\* The target a guidance text "<n> lines long" asks for, 0 when the text is
\* absent, empty, without a count or with the count 0.
GuidanceTarget(guidance) ==
    IF \E n \in 1..MaxGuidanceCount : guidance = Some(CountGuidance(n))
    THEN CHOOSE n \in 1..MaxGuidanceCount : guidance = Some(CountGuidance(n))
    ELSE 0

\* The ceiling the options ask for: the guidance count, else the fixed
\* count of the style, else 12.
ResolvedTarget(opts) ==
    IF GuidanceTarget(opts.guidance) > 0 THEN GuidanceTarget(opts.guidance)
    ELSE IF FixedCountOf(opts.style) > 0 THEN FixedCountOf(opts.style)
    ELSE 12

HasPoem(r) == pc[r] \in {"line", "check", "judge", "done"}

Length(r) == Len(poem[r].lines)

CallsOfKind(r, kind) == {i \in 1..Len(calls[r]) : calls[r][i].kind = kind}

\* The judgment requests issued while the poem had k lines.
JudgmentsAt(r, k) == {i \in CallsOfKind(r, "judge") : calls[r][i].len = k}

KindsOf(r) == [i \in 1..Len(calls[r]) |-> calls[r][i].kind]

---------------------------------------------------------------------------
(* Properties.                                                              *)

\* C1, hard ceiling: once the poem exists, lines.length never exceeds
\* maxLines, maxLines is the target the options resolve to, and it keeps
\* its value from then on.
C1_HardCeiling ==
    /\ [](\A r \in RunIds :
              HasPoem(r) =>
                  /\ Length(r) <= maxLines[r]
                  /\ maxLines[r] = ResolvedTarget(options[r]))
    /\ [][\A r \in RunIds : HasPoem(r) => maxLines'[r] = maxLines[r]]_vars

\* A run stopped by the ceiling alone: the last judgment did not affirm.
C1_Witness ==
    /\ pc[1] = "done" /\ ~isComplete[1]
    /\ Length(1) = maxLines[1] /\ maxLines[1] = 12

\* C2, termination: when every request returns, a run that has started
\* reaches its end, and it never issues more next-line requests than the
\* resolved target.
C2_Termination ==
    /\ [](\A r \in RunIds :
              Cardinality(CallsOfKind(r, "line")) <= ResolvedTarget(options[r]))
    /\ \A r \in {1} : (pc[r] # "idle") ~> (pc[r] = "done")

\* A sonnet run in which no judgment affirmed, ended at 14 lines.
C2_Witness ==
    /\ pc[1] = "done" /\ Length(1) = 14
    /\ options[1].style \in SonnetStyles
    /\ lastResponse[1]["judge"] = Some(<<"n", "o">>)
    /\ Cardinality(CallsOfKind(1, "judge")) = 11

\* C3: with a guidance target N the returned poem has exactly N lines,
\* whatever the style and the judgments, and the run is never complete
\* with fewer than N lines.
C3_GuidanceTargetExact ==
    \A r \in RunIds :
        LET N == GuidanceTarget(options[r].guidance)
        IN (HasPoem(r) /\ N >= 1) =>
              /\ pc[r] = "done" => Length(r) = N
              /\ isComplete[r] => Length(r) = N
              /\ Length(r) <= N

\* Guidance asks for 6 lines of a haiku; the judgment-free rule of the
\* style would have stopped at 3.
C3_Witness ==
    /\ pc[1] = "done" /\ Length(1) = 6
    /\ options[1].style \in HaikuStyles
    /\ GuidanceTarget(options[1].guidance) = 6

\* C4: a haiku without guidance target ends with exactly 3 lines and the
\* run issues no judgment request.
C4_HaikuThreeLinesNoJudgment ==
    \A r \in RunIds :
        (options[r].style \in HaikuStyles
         /\ GuidanceTarget(options[r].guidance) = 0) =>
              /\ CallsOfKind(r, "judge") = {}
              /\ pc[r] = "done" => Length(r) = 3
              /\ HasPoem(r) => Length(r) <= 3

C4_Witness ==
    /\ pc[1] = "done" /\ Length(1) = 3 /\ isComplete[1]
    /\ options[1].style = Some(<<"H", "A", "I", "K", "U">>)
    /\ options[1].guidance = Some(T_nicePoem)

\* The title a title response becomes: trimmed, double quotes removed.
ExpectedTitle(response) ==
    IF response = <<"\"", " ", "D", "u", "s", "k", " ", "\"">>
    THEN <<" ", "D", "u", "s", "k", " ">>
    ELSE <<"D", "u", "s", "k">>

HaikuFromScratch(r) ==
    /\ pc[r] = "done"
    /\ options[r].style \in HaikuStyles
    /\ options[r].title = None
    /\ options[r].seedLine = None
    /\ options[r].guidance = None

\* C5, as claimed: the returned title is the title response itself.
C5_TitleIsResponse ==
    \A r \in RunIds :
        HaikuFromScratch(r) =>
            /\ KindsOf(r) = <<"title", "seed", "line", "line">>
            /\ lastResponse[r]["title"] = Some(poem[r].title)
            /\ Length(r) = 3

\* C5, amended: a haiku run without title, seed line and guidance issues
\* exactly the requests title, seed, next line, next line; the poem has 3
\* lines and its title is the title response trimmed, without double quotes.
C5_HaikuCallTrace ==
    \A r \in RunIds :
        HaikuFromScratch(r) =>
            /\ KindsOf(r) = <<"title", "seed", "line", "line">>
            /\ calls[r][3].len = 1 /\ calls[r][4].len = 2
            /\ \E response \in TitleResponses :
                   /\ lastResponse[r]["title"] = Some(response)
                   /\ poem[r].title = ExpectedTitle(response)
            /\ Length(r) = 3

C5_Witness ==
    /\ HaikuFromScratch(1)
    /\ lastResponse[1]["title"] = Some(<<" ", "D", "u", "s", "k", "\n">>)
    /\ poem[1].title = <<"D", "u", "s", "k">>

\* C6: while a guidance target N is active and the poem has fewer than N
\* lines, the run is not complete, has not ended and has issued no judgment
\* request.
C6_GrowingBelowTarget ==
    \A r \in RunIds :
        LET N == GuidanceTarget(options[r].guidance)
        IN (HasPoem(r) /\ N >= 1 /\ Length(r) < N) =>
              /\ ~isComplete[r]
              /\ pc[r] \notin {"judge", "done"}
              /\ CallsOfKind(r, "judge") = {}

\* Line 13 of a 15-line limerick is awaited: past every fixed count and
\* the floor of 3, and still no judgment.
C6_Witness ==
    /\ pc[1] = "line" /\ Length(1) = 12
    /\ options[1].style \in LimerickStyles
    /\ GuidanceTarget(options[1].guidance) = 15

\* C7, as claimed: with a guidance target N the finished run has issued
\* exactly one judgment request, and issued it at N lines.  Stated for the
\* targets the loop can reach, N >= 2; with N = 1 the loop is not entered
\* and no request of any kind follows the seed line.
C7_OneJudgmentAtTarget ==
    \A r \in RunIds :
        LET N == GuidanceTarget(options[r].guidance)
        IN (pc[r] = "done" /\ N >= 2) =>
              /\ Cardinality(CallsOfKind(r, "judge")) = 1
              /\ Cardinality(JudgmentsAt(r, N)) = 1

\* C8: without guidance target, once the poem has the fixed count of its
\* style the run is complete by rule: no judgment request is issued at
\* that length, and the run ends complete.
C8_FixedCountCompletes ==
    \A r \in RunIds :
        LET count == FixedCountOf(options[r].style)
        IN (HasPoem(r) /\ GuidanceTarget(options[r].guidance) = 0
            /\ count > 0 /\ Length(r) = count) =>
              /\ JudgmentsAt(r, count) = {}
              /\ pc[r] \in {"check", "done"}
              /\ pc[r] = "check" => checkResult[r]
              /\ pc[r] = "done" => isComplete[r]

\* A limerick that no judgment ended early, complete at 5 lines.
C8_Witness ==
    /\ pc[1] = "done" /\ isComplete[1] /\ Length(1) = 5
    /\ options[1].style \in LimerickStyles
    /\ options[1].guidance = None
    /\ lastResponse[1]["judge"] = Some(<<>>)
    /\ Cardinality(CallsOfKind(1, "judge")) = 2

\* The response to the judgment request that returned last.
LastJudgment(r) == lastResponse[r]["judge"]

\* The fixed count of the style is reached at k lines.
FixedCountReachedAt(r, k) ==
    FixedCountOf(options[r].style) > 0 /\ k >= FixedCountOf(options[r].style)

C10_CompleteIsTerminal ==
    /\ [](\A r \in RunIds : isComplete[r] => pc[r] = "done")
    /\ [][\A r \in RunIds :
              isComplete[r] =>
                  /\ isComplete'[r]
                  /\ calls'[r] = calls[r]
                  /\ poem'[r] = poem[r]
                  /\ pc'[r] = "done"]_vars

C10_Witness ==
    /\ isComplete[1] /\ pc[1] = "done"
    /\ Length(1) = 3 /\ maxLines[1] = 12
    /\ calls[1][Len(calls[1])].kind = "judge"

\* The first line the options and the seed response ask for.
ExpectedSeed(r) ==
    IF options[r].seedLine = Some(<<"S", "e", "e", "d">>)
    THEN <<"S", "e", "e", "d">>
    ELSE <<"C", "a", "r", "p", "e">>

\* The line a next-line response becomes as line k: its text without the
\* surrounding white space, the empty text for a blank response.
ExpectedLine(response, k) == IF response = <<"\n">> THEN <<>> ELSE NumText(k)

\* C11, the poem: from its creation on, lines is not empty and begins with
\* the seed line; every next-line response that has returned added exactly
\* one line, the text of the response; a step leaves lines alone or appends
\* one element to it; the title keeps the value it was created with.
C11_PoemStateInvariant ==
    /\ [](\A r \in RunIds :
              HasPoem(r) =>
                  /\ Length(r) >= 1
                  /\ poem[r].lines[1] = ExpectedSeed(r)
                  /\ poem[r].title = finalTitle[r]
                  /\ Length(r) = 1 + Cardinality(CallsOfKind(r, "line"))
                                   - (IF pc[r] = "line" THEN 1 ELSE 0)
                  /\ \A k \in 2..Length(r) :
                         poem[r].lines[k] \in {NumText(k)} \cup (IF k = 2 THEN {<<>>} ELSE {})
                  /\ (Length(r) >= 2 /\ pc[r] # "line") =>
                         \E response \in LineResponses(Length(r) - 1) :
                             /\ lastResponse[r]["line"] = Some(response)
                             /\ poem[r].lines[Length(r)] = ExpectedLine(response, Length(r)))
    /\ [][\A r \in RunIds :
              HasPoem(r) =>
                  /\ poem'[r].title = poem[r].title
                  /\ \/ poem'[r].lines = poem[r].lines
                     \/ /\ Len(poem'[r].lines) = Length(r) + 1
                        /\ SubSeq(poem'[r].lines, 1, Length(r)) = poem[r].lines
                        /\ pc[r] = "line"]_vars

\* A poem whose second line is the empty text of a blank response, grown
\* to four lines under a generated title and seed line.
C11_Witness ==
    /\ pc[1] = "done" /\ Length(1) = 4
    /\ poem[1].lines[1] = <<"C", "a", "r", "p", "e">>
    /\ poem[1].lines[2] = <<>>
    /\ poem[1].title = <<" ", "D", "u", "s", "k", " ">>

\* The guidance texts from which no count can be taken: absent, empty,
\* without a number, and with the number 0.
NoCountGuidance == {None, Some(<<>>), Some(T_nicePoem), Some(CountGuidance(0))}

\* C12, target length: the ceiling of a run is the count of its guidance
\* when the guidance states one; otherwise 3 for a haiku, 5 for a limerick,
\* 14 for a sonnet; otherwise 12.
C12_TargetLengthResolution ==
    \A r \in RunIds :
        HasPoem(r) =>
            /\ \A n \in 1..MaxGuidanceCount :
                   options[r].guidance = Some(CountGuidance(n)) => maxLines[r] = n
            /\ options[r].guidance \in NoCountGuidance =>
                   maxLines[r] =
                       IF options[r].style \in HaikuStyles THEN 3
                       ELSE IF options[r].style \in LimerickStyles THEN 5
                       ELSE IF options[r].style \in SonnetStyles THEN 14
                       ELSE 12

\* A limerick whose guidance states the count 0: the style decides.
C12_Witness ==
    /\ HasPoem(1) /\ maxLines[1] = 5
    /\ options[1].style \in LimerickStyles
    /\ options[1].guidance = Some(CountGuidance(0))

\* The styles without a rule: absent, 'random' in two spellings, and a
\* name the table does not know.
FreeStyles ==
    {None, Some(<<"r", "a", "n", "d", "o", "m">>),
     Some(<<"R", "A", "N", "D", "O", "M">>), Some(<<"O", "d", "e">>)}

\* The variants of the fragments of one block in the prompt of the request
\* that run r issued last.
NotesOf(r, block) ==
    {prompt[r][i].note : i \in {j \in 1..Len(prompt[r]) : prompt[r][j].block = block}}

\* The positional directives and rhyme schemes in that prompt.
DirectivesOf(r) == NotesOf(r, "directive") \cup NotesOf(r, "scheme")

\* C13, style lookup: every spelling of haiku gives the ceiling 3 and the
\* syllable directives of the haiku, Limerick and Sonnet give 5 and 14 and
\* their rhyme schemes; an absent style, 'random' in any case and an unknown
\* name give the ceiling 12, no directive in any next-line prompt, and no
\* completion by a fixed count.  (Guidance without a count throughout.)
C13_StyleLookup ==
    \A r \in RunIds :
        LET style == options[r].style
        IN (HasPoem(r) /\ options[r].guidance \in NoCountGuidance) =>
              /\ style \in HaikuStyles =>
                     /\ maxLines[r] = 3
                     /\ pc[r] = "line" =>
                            DirectivesOf(r) =
                                IF Length(r) = 1 THEN {"7 syllables"}
                                ELSE {"5 syllables, conclude"}
              /\ style \in LimerickStyles =>
                     /\ maxLines[r] = 5
                     /\ pc[r] = "line" => "AABBA" \in DirectivesOf(r)
              /\ style \in SonnetStyles =>
                     /\ maxLines[r] = 14
                     /\ pc[r] = "line" => "ABAB CDCD EFEF GG" \in DirectivesOf(r)
              /\ style \in FreeStyles =>
                     /\ maxLines[r] = 12
                     /\ pc[r] = "line" => DirectivesOf(r) = {}
                     /\ pc[r] # "check"
                     /\ Length(r) <= 12

\* A run in the style 'RANDOM' that no judgment ended: it stopped at the
\* ceiling of 12 lines, and its last next-line prompt had no directive.
C13_Witness ==
    /\ pc[1] = "done" /\ Length(1) = 12 /\ ~isComplete[1]
    /\ options[1].style = Some(<<"R", "A", "N", "D", "O", "M">>)
    /\ options[1].guidance = Some(T_nicePoem)

\* The value a number of ExtractNumbers is written for.
ValueOf(number) ==
    CASE number = <<"0">> -> 0
      [] number = <<"1">> -> 1
      [] number = <<"7">> -> 7
      [] number = <<"2", "4">> -> 24
      [] number = <<"5", "0", "0">> -> 500
      [] number = <<"0", "0">> -> 0
      [] number = <<"0", "1", "2">> -> 12

\* The spellings of the word that the pattern accepts.
LineWords == {<<"l", "i", "n", "e">>, <<"l", "i", "n", "e", "s">>, <<"L", "I", "N", "E", "S">>, <<"L", "i", "n", "e", "s">>}

\* What one mention asks for: its number when the word is line(s) and the
\* number is positive.
ExpectedCount(parts) ==
    IF parts.word \in LineWords /\ ValueOf(parts.number) > 0
    THEN Some(ValueOf(parts.number))
    ELSE None

AssembledText == [parts \in MentionParts |-> Assemble(parts)]

\* C14, extractLineCount: the result is absent or an integer >= 1; absent
\* for absent, empty and pattern-free guidance and for the number 0; the
\* number of the mention otherwise, in any case of the word, with or
\* without white space before it and with or without a trailing long, in
\* length or total.
C14_ExtractLineCount ==
    extractResult # None =>
        LET result == Val(extractResult)
        IN /\ result = None \/ (IsSome(result) /\ Val(result) >= 1)
           /\ extractArg \in {None, Some(<<>>), Some(T_nicePoem),
                              Some(<<"l", "i", "n", "e", "s", " ", "l", "o", "n", "g">>), Some(<<"2", "4">>)} => result = None
           /\ extractArg = Some(<<"m", "a", "k", "e", " ", "i", "t", " ", "2", "4", " ", "l", "i", "n", "e", "s", " ", "l", "o", "n", "g">>) => result = Some(24)
           /\ extractArg = Some(<<"0", " ", "l", "i", "n", "e", "s", " ", "l", "o", "n", "g">>) => result = None
           /\ extractArg = Some(<<"5", "0", "0", " ", "l", "i", "n", "e", "s", " ", "l", "o", "n", "g">>) => result = Some(500)
           /\ \A parts \in MentionParts :
                  extractArg = Some(AssembledText[parts]) =>
                      result = ExpectedCount(parts)

\* "make it 24LINES": capitals, no white space, nothing after the word.
C14_Witness ==
    /\ extractArg = Some(<<"m", "a", "k", "e", " ", "i", "t", " ", "2", "4", "L", "I", "N", "E", "S">>)
    /\ extractResult = Some(Some(24))

\* The number of a first or second mention, -1 when the mention is not an
\* occurrence of the pattern.
MentionCount(mention) ==
    CASE mention = <<"0", " ", "l", "i", "n", "e", "s">> -> 0
      [] mention = <<"3", " ", "l", "i", "n", "e", "s">> -> 3
      [] mention = <<"1", "2", " ", "l", "i", "n", "e", "s", " ", "l", "o", "n", "g">> -> 12
      [] mention = <<"3", " ", "v", "e", "r", "s", "e", "s">> -> -1
      [] mention = <<"n", "o", " ", "l", "i", "n", "e", "s">> -> -1
      [] mention = <<"5", " ", "l", "i", "n", "e", "s">> -> 5
      [] mention = <<"8", " ", "L", "I", "N", "E", "S", " ", "t", "o", "t", "a", "l">> -> 8

\* C15, first occurrence only: of two mentions the first occurrence of the
\* pattern decides alone: its number when positive, absent when 0,
\* whatever the second mention says; the second decides only when the first
\* is no occurrence of the pattern.
C15_FirstOccurrenceOnly ==
    \A first \in FirstMentions, second \in SecondMentions :
        (extractResult # None /\ extractArg = Some(first \o T_then \o second)) =>
            LET deciding == IF MentionCount(first) >= 0 THEN first ELSE second
            IN Val(extractResult) =
                   IF MentionCount(deciding) > 0
                   THEN Some(MentionCount(deciding))
                   ELSE None

\* "0 lines, then 5 lines": the first mention is 0, the result is absent.
C15_Witness ==
    /\ extractArg = Some(<<"0", " ", "l", "i", "n", "e", "s", ",", " ", "t", "h", "e", "n", " ", "5", " ", "l", "i", "n", "e", "s">>)
    /\ extractResult = Some(None)

\* The requests of run r that have been issued and have not returned.
Outstanding(r) == Len(calls[r]) - returned[r]

\* The poems shown in a prompt: title and lines of each context fragment.
ContextsIn(text) ==
    {text[i].arg : i \in {j \in 1..Len(text) : text[j].block = "context"}}

\* C16, one request at a time: a run has at most one request outstanding,
\* and has one exactly while it awaits a response; a request is issued only
\* when all earlier ones have returned; and the prompt of a next-line or
\* judgment request shows the poem as it is after the response that has
\* just returned: the cleaned title, the trimmed seed line, the line just
\* appended.
C16_OneRequestAtATime ==
    /\ [](\A r \in RunIds :
              /\ Outstanding(r) \in {0, 1}
              /\ Outstanding(r) = 1 <=> pc[r] \in Kinds)
    /\ [][\A r \in RunIds :
              calls'[r] # calls[r] =>
                  /\ Len(calls'[r]) = Len(calls[r]) + 1
                  /\ returned'[r] = Len(calls[r])
                  /\ calls'[r][Len(calls'[r])].kind \in {"line", "judge"} =>
                         /\ ContextsIn(prompt'[r]) = {<<poem'[r].title>> \o poem'[r].lines}
                         /\ pc[r] = "title" =>
                                \E response \in TitleResponses :
                                    /\ lastResponse'[r]["title"] = Some(response)
                                    /\ poem'[r].title = ExpectedTitle(response)
                         /\ pc[r] = "seed" =>
                                poem'[r].lines = <<<<"C", "a", "r", "p", "e">>>>
                         /\ pc[r] = "line" =>
                                \E response \in LineResponses(Length(r)) :
                                    /\ lastResponse'[r]["line"] = Some(response)
                                    /\ poem'[r].lines =
                                           Append(poem[r].lines,
                                                  ExpectedLine(response, Length(r) + 1))]_vars

\* The judgment request at 3 lines is outstanding; title, seed line and two
\* next-line requests have returned, and the prompt shows all three lines.
C16_Witness ==
    /\ pc[1] = "judge" /\ Len(calls[1]) = 5 /\ returned[1] = 4
    /\ ContextsIn(prompt[1]) =
           {<<<<"D", "u", "s", "k">>, <<"C", "a", "r", "p", "e">>, <<>>, <<"3">>>>}

\* C17, failure is fatal: when an awaited request ends without a response
\* the run has failed at once, with no request issued in that step; a
\* failed run stays failed: it issues no request, changes no poem and never
\* returns one.
C17_FailureIsFatal ==
    /\ [](\A r \in RunIds : pc[r] = "failed" => Outstanding(r) = 1)
    /\ [][\A r \in RunIds :
              /\ (pc[r] \in Kinds /\ returned'[r] = returned[r]
                  /\ (pc'[r] # pc[r] \/ calls'[r] # calls[r])) =>
                     /\ pc'[r] = "failed"
                     /\ calls'[r] = calls[r]
                     /\ poem'[r] = poem[r]
              /\ pc[r] = "failed" =>
                     /\ pc'[r] = "failed"
                     /\ calls'[r] = calls[r]
                     /\ poem'[r] = poem[r]]_vars

\* The judgment request at 3 lines failed, after title, seed line and two
\* lines had been generated.
C17_Witness ==
    /\ pc[1] = "failed" /\ Length(1) = 3
    /\ KindsOf(1) = <<"title", "seed", "line", "line", "judge">>

\* The texts interpolated into the fragments of one block of a prompt.
TextsIn(text, block) ==
    {text[i].arg : i \in {j \in 1..Len(text) : text[j].block = block}}

\* The fragments a prompt has when the option is stated in it: one with the
\* option's text, none for an absent or empty option.
Stated(o) == IF o \in {None, Some(<<>>)} THEN {} ELSE {<<Val(o)>>}

\* C18, as claimed: runs share nothing.  The persona and the guidance in
\* the title, seed and next-line prompts of a run are those of its own
\* options, and a run with guidance target N issues no judgment request
\* below N lines and ends with exactly N lines, also when another run on the
\* same agent is under way.
C18_RunsAreIsolated ==
    \A r \in RunIds :
        LET N == GuidanceTarget(options[r].guidance)
        IN /\ pc[r] \in {"title", "seed", "line"} =>
                  /\ TextsIn(prompt[r], "persona") = Stated(options[r].userBio)
                  /\ TextsIn(prompt[r], "guidance") = Stated(options[r].guidance)
           /\ (HasPoem(r) /\ N >= 1) =>
                  /\ \A k \in 1..(N - 1) : JudgmentsAt(r, k) = {}
                  /\ pc[r] = "done" => Length(r) = N

\* The place of a fragment in the order role/context, persona, theme,
\* guidance, style, output-format.  What is asked, the poem so far, its
\* line count and the length requirement of the judgment are role/context;
\* the style statement, the rhyme scheme and the positional directive are
\* the style block.
BlockRank(fragment) ==
    CASE fragment.block \in {"task", "context", "count", "requirement"} -> 1
      [] fragment.block = "persona" -> 2
      [] fragment.block = "theme" -> 3
      [] fragment.block = "guidance" -> 4
      [] fragment.block \in {"style", "scheme", "directive"} -> 5
      [] fragment.block = "format" -> 6

\* The same with the statement of the task of a next-line request placed
\* after the persona.
BlockRankInCode(fragment) ==
    IF fragment.block = "task" /\ fragment.note = "line"
    THEN 5
    ELSE 2 * BlockRank(fragment)

Ordered(text, Rank(_)) ==
    \A i \in 1..Len(text), j \in 1..Len(text) :
        i < j => Rank(text[i]) <= Rank(text[j])

FormatIsLast(text) ==
    /\ Len(text) >= 1
    /\ text[Len(text)].block = "format"
    /\ \A i \in 1..(Len(text) - 1) : text[i].block # "format"

\* C19, as claimed: in every prompt the blocks present stand in the order
\* role/context, persona, theme, guidance, style, output-format.
C19_BlockOrder ==
    \A r \in RunIds :
        pc[r] \in Kinds =>
            /\ Ordered(prompt[r], BlockRank)
            /\ FormatIsLast(prompt[r])

\* C19, amended: the title, seed and judgment prompts have that order; in
\* the next-line prompt the persona stands inside the role/context block,
\* after the poem so far and before the statement of the task, and theme,
\* guidance, style and output-format follow in that order.  In every prompt
\* the output-format instruction is last and guidance precedes style.
C19_BlockOrderInCode ==
    \A r \in RunIds :
        pc[r] \in Kinds =>
            /\ Ordered(prompt[r], BlockRankInCode)
            /\ pc[r] # "line" => Ordered(prompt[r], BlockRank)
            /\ FormatIsLast(prompt[r])
            /\ prompt[r][1].block = (IF pc[r] \in {"title", "seed"} THEN "task" ELSE "context")

\* The blocks of the prompt that run r issued last, in order.
BlocksOf(r) == [i \in 1..Len(prompt[r]) |-> prompt[r][i].block]

\* The prompt for the third line of a haiku with persona, theme and
\* guidance: every block is present.
C19_Witness ==
    /\ pc[1] = "line" /\ Length(1) = 2
    /\ BlocksOf(1) = <<"context", "persona", "task", "theme", "guidance",
                       "style", "directive", "format">>

\* The theme fragments a prompt has when the theme is stated in it: one
\* with the theme as written; none when the theme is absent, empty or
\* 'random' in either spelling.
StatedTheme(theme) == IF theme = Some(<<"S", "e", "a">>) THEN {<<<<"S", "e", "a">>>>} ELSE {}

\* C20, as claimed: the prompt of every request, of all four kinds, states
\* the theme iff a theme is present and is not 'random'.
C20_ThemeInEveryPrompt ==
    \A r \in RunIds :
        pc[r] \in Kinds =>
            TextsIn(prompt[r], "theme") = StatedTheme(options[r].theme)

\* C20, amended: the title prompt and the next-line prompt state the theme
\* iff a theme is present, not empty and not 'random' in any case; the seed
\* prompt and the judgment prompt never state it.
C20_ThemeInTitleAndNextLine ==
    \A r \in RunIds :
        /\ pc[r] \in {"title", "line"} =>
               TextsIn(prompt[r], "theme") = StatedTheme(options[r].theme)
        /\ pc[r] \in {"seed", "judge"} => TextsIn(prompt[r], "theme") = {}

\* A judgment request of a run on the theme 'Sea': the prompt is silent
\* about the theme.
C20_Witness ==
    /\ pc[1] = "judge" /\ Length(1) = 3
    /\ options[1].theme = Some(<<"S", "e", "a">>)
    /\ TextsIn(prompt[1], "theme") = {}
    /\ TextsIn(prompt[1], "context") # {}

\* C21, as claimed: the prompt of every request, of all four kinds, states
\* the guidance as written when guidance is present and has no guidance
\* block when it is absent, whether or not the guidance has a line count.
C21_GuidanceInEveryPrompt ==
    \A r \in RunIds :
        pc[r] \in Kinds =>
            TextsIn(prompt[r], "guidance") = Stated(options[r].guidance)

\* C21, amended: the title, seed and next-line prompts state the guidance
\* as written iff guidance is present and not empty.  The judgment prompt
\* does so only for guidance without a line count; for guidance with a
\* count N it has no guidance block and states the requirement of N lines
\* and the current length instead.
C21_GuidanceVerbatimUnlessCounted ==
    \A r \in RunIds :
        LET target == GuidanceTarget(options[r].guidance)
        IN /\ pc[r] \in {"title", "seed", "line"} =>
                  TextsIn(prompt[r], "guidance") = Stated(options[r].guidance)
           /\ (pc[r] = "judge" /\ target = 0) =>
                  /\ TextsIn(prompt[r], "guidance") = Stated(options[r].guidance)
                  /\ TextsIn(prompt[r], "requirement") = {}
           /\ (pc[r] = "judge" /\ target > 0) =>
                  /\ TextsIn(prompt[r], "guidance") = {}
                  /\ TextsIn(prompt[r], "requirement") =
                         {<<NumText(target), NumText(Length(r))>>}

\* A judgment request of a run whose guidance asks for a number of lines,
\* issued at that length: the prompt has the requirement and no guidance
\* block.
C21_Witness ==
    /\ pc[1] = "judge" /\ Length(1) = PromptGuidanceCount
    /\ options[1].guidance = Some(CountGuidance(PromptGuidanceCount))
    /\ TextsIn(prompt[1], "guidance") = {}
    /\ TextsIn(prompt[1], "requirement") # {}

\* C22, persona block: the title prompt, the seed-line prompt and every
\* next-line prompt state the bio as written when a bio is present and not
\* empty, and have no persona block otherwise.
C22_PersonaBlock ==
    \A r \in RunIds :
        pc[r] \in {"title", "seed", "line"} =>
            TextsIn(prompt[r], "persona") = Stated(options[r].userBio)

\* The request for the third line of a poem by 'Bio': the prompt states the
\* bio, as the title and seed prompts of the run did.
C22_Witness ==
    /\ pc[1] = "line" /\ Length(1) = 2
    /\ options[1].userBio = Some(<<"B", "i", "o">>)
    /\ TextsIn(prompt[1], "persona") = {<<<<"B", "i", "o">>>>}
    /\ KindsOf(1) = <<"title", "seed", "line", "line">>

\* The style fragments a next-line prompt has when the style is named in
\* it: one with the style as written; none when the style is absent or
\* 'random' in either spelling.
StatedStyle(style) ==
    IF style \in {None, Some(<<"r", "a", "n", "d", "o", "m">>),
                  Some(<<"R", "A", "N", "D", "O", "M">>)}
    THEN {}
    ELSE {<<Val(style)>>}

\* C23, style block: a next-line prompt names the style as given exactly
\* when a style is present and is not 'random' in any case; for a name the
\* table does not know the block is there without directive or scheme.
C23_StyleBlock ==
    \A r \in RunIds :
        pc[r] = "line" =>
            /\ TextsIn(prompt[r], "style") = StatedStyle(options[r].style)
            /\ options[r].style = Some(<<"O", "d", "e">>) => DirectivesOf(r) = {}
            /\ DirectivesOf(r) # {} => TextsIn(prompt[r], "style") # {}

\* The request for the fourth line of an 'Ode': the style is named, and
\* nothing is said about the position of the line.
C23_Witness ==
    /\ pc[1] = "line" /\ Length(1) = 3
    /\ TextsIn(prompt[1], "style") = {<<<<"O", "d", "e">>>>}
    /\ DirectivesOf(1) = {}

\* C24, haiku directive: the prompt that generates line 2 carries the
\* directive of 7 syllables, the prompt that generates line 3 the directive
\* of 5 syllables that concludes the haiku, and the prompt for any other
\* line carries none.
C24_HaikuDirective ==
    \A r \in RunIds :
        (pc[r] = "line" /\ options[r].style \in HaikuStyles) =>
            LET index == Length(r) + 1
            IN NotesOf(r, "directive") =
                   IF index = 2 THEN {"7 syllables"}
                   ELSE IF index = 3 THEN {"5 syllables, conclude"}
                   ELSE {}

\* The request for the fifth line of a haiku that guidance makes longer:
\* the style is named without a directive.
C24_Witness ==
    /\ pc[1] = "line" /\ Length(1) = 4
    /\ options[1].style = Some(<<"H", "A", "I", "K", "U">>)
    /\ options[1].guidance = Some(CountGuidance(PromptGuidanceCount))
    /\ TextsIn(prompt[1], "style") = {<<<<"H", "A", "I", "K", "U">>>>}
    /\ NotesOf(1, "directive") = {}

\* C25, as claimed: by the index of the line being generated, the limerick
\* prompts for lines 2 and 5 carry the directive to rhyme with line 1, the
\* prompts for lines 3 and 4 the directive to rhyme with line 3, and every
\* limerick next-line prompt states the scheme AABBA.
C25_LimerickDirective ==
    \A r \in RunIds :
        (pc[r] = "line" /\ options[r].style \in LimerickStyles) =>
            LET index == Length(r) + 1
            IN /\ index \in {2, 5} => NotesOf(r, "directive") = {"rhyme with line 1"}
               /\ index \in {3, 4} => NotesOf(r, "directive") = {"rhyme with line 3"}
               /\ NotesOf(r, "scheme") = {"AABBA"}

\* C26, as claimed: by the index of the line being generated, the sonnet
\* prompts for lines 3, 7 and 11 carry the directive to rhyme with the first
\* line of the quatrain, the prompts for lines 4, 8 and 12 the directive to
\* rhyme with its second line, and the prompts for lines 13 and 14 the
\* directive of the closing couplet.
C26_SonnetDirective ==
    \A r \in RunIds :
        (pc[r] = "line" /\ options[r].style \in SonnetStyles) =>
            LET index == Length(r) + 1
            IN /\ index \in {3, 7, 11} =>
                      NotesOf(r, "directive") = {"rhyme with first line of quatrain"}
               /\ index \in {4, 8, 12} =>
                      NotesOf(r, "directive") = {"rhyme with second line of quatrain"}
               /\ index \in {13, 14} =>
                      NotesOf(r, "directive") = {"rhyming couplet"}

\* The judgment responses that contain 'yes' in some case, and those that
\* do not.
AffirmingResponses ==
    {<<"Y", "e", "s">>, <<"Y", "E", "S", ".">>, <<" ", "y", "e", "s", "\n">>,
     <<"y", "e", "s", "t", "e", "r", "d", "a", "y">>}
OtherResponses == {<<"n", "o">>, <<>>}

\* C27, judgment parsing: when a judgment response arrives, the run takes
\* the poem for complete iff the response, trimmed and in lower case,
\* contains 'yes': 'Yes', 'YES.', ' yes\n' and 'yesterday' affirm, 'no' and
\* the empty response do not.  An affirmed run ends; another continues or
\* has reached its ceiling.
C27_JudgmentParsing ==
    [][\A r \in RunIds :
           (pc[r] = "judge" /\ pc'[r] # "judge") =>
               LET response == lastResponse'[r]["judge"]
               IN /\ response \in {Some(x) : x \in AffirmingResponses \cup OtherResponses}
                  /\ isComplete'[r] <=> response \in {Some(x) : x \in AffirmingResponses}
                  /\ isComplete'[r] => pc'[r] = "done"
                  /\ ~isComplete'[r] =>
                         pc'[r] = (IF Length(r) < maxLines[r] THEN "line" ELSE "done")]_vars

\* A judgment at 3 lines answered 'yesterday': the run ended complete.
C27_Witness ==
    /\ pc[1] = "done" /\ isComplete[1] /\ Length(1) = 3
    /\ lastResponse[1]["judge"] = Some(<<"y", "e", "s", "t", "e", "r", "d", "a", "y">>)
    /\ options[1].guidance = Some(T_nicePoem)

\* C28, context completeness: the prompt of a next-line request issued at
\* k lines, and of a judgment request issued after the append that made the
\* poem k lines long, shows the title and exactly the lines 1..k in reading
\* order: the title of the run, the seed line, then the line of each
\* next-line response; the judgment prompt states the count k.
C28_ContextCompleteness ==
    \A r \in RunIds :
        pc[r] \in {"line", "judge"} =>
            LET k == calls[r][Len(calls[r])].len
            IN /\ k = Length(r)
               /\ ContextsIn(prompt[r]) = {<<poem[r].title>> \o poem[r].lines}
               /\ \A context \in ContextsIn(prompt[r]) :
                      /\ Len(context) = k + 1
                      /\ context[1] = finalTitle[r]
                      /\ context[2] = ExpectedSeed(r)
                      /\ \A i \in 2..k : context[i + 1] \in {NumText(i), <<>>}
               /\ pc[r] = "judge" =>
                      /\ TextsIn(prompt[r], "count") = {<<NumText(k)>>}
                      /\ calls[r][Len(calls[r]) - 1] = [kind |-> "line", len |-> k - 1]

\* The judgment request at 4 lines of the poem 'My' that began with 'Seed':
\* the prompt shows the title and the four lines.
C28_Witness ==
    /\ pc[1] = "judge" /\ Length(1) = 4
    /\ ContextsIn(prompt[1]) =
           {<<<<"M", "y">>, <<"S", "e", "e", "d">>, NumText(2), NumText(3), NumText(4)>>}

\* The configuration a command found in its working directory.
LoadedConfig == loadConfig(files[cwd])

\* The value of an option of the last command as commander parsed it, and
\* the value the configuration of its working directory has for it.
FlagOf(k) == cliOptions[k]
LoadedOf(k) == Get(LoadedConfig, k)

\* The names Ollama may list, and the suggestions other than 'Random'.
InstalledNames == UNION {{models[i] : i \in 1..Len(models)} : models \in InstalledModels}
SuggestionsFor(k) ==
    LET suggested == IF k = "theme" THEN suggestedThemes ELSE suggestedStyles
    IN {suggested[i] : i \in 1..Len(suggested)} \ {<<"R", "a", "n", "d", "o", "m">>}

\* The create command reached agent.run.
CreateRan == command = "create" /\ agentRun # None

\* C29, as claimed: for model, title, seedLine, theme and style the run
\* uses the flag when it is given, otherwise the loaded value when there is
\* one, otherwise nothing (model: a model that is installed).
FlagFirst(k) == IF IsSome(FlagOf(k)) THEN FlagOf(k) ELSE LoadedOf(k)

NonEmptyFlagFirst(k) ==
    IF FlagOf(k) \notin {None, Some(<<>>)} THEN FlagOf(k) ELSE LoadedOf(k)

UsesSaved(k, value) ==
    LET saved == Val(lastSaved)[k]
    IN IF k \in {"theme", "style"} /\ saved = Some(<<"R", "a", "n", "d", "o", "m">>)
       THEN value \in {Some(x) : x \in SuggestionsFor(k)}
       ELSE value = saved

\* C30, as claimed: once save-config has saved settings S, every later
\* create, in whatever directory it is started, uses S for each field that
\* no flag overrides.
C30_SavedSettingsReused ==
    (CreateRan /\ lastSaved # None) =>
        /\ \A k \in {"title", "seedLine", "theme", "style"} :
               ~Truthy(FlagOf(k)) => UsesSaved(k, Val(agentRun)[k])
        /\ (~Truthy(FlagOf("model")) /\ Truthy(Val(lastSaved).model)) =>
               modelName = Val(lastSaved).model

\* The blocks a prompt has by itself: the task, the closing format
\* instruction, the poem so far and its line count.
BareBlocks == {"task", "format", "context", "count"}

\* C31, all fields optional: a run with no title, seed line, theme, style,
\* bio or guidance does not fail; it asks for a title, then for a seed line;
\* its ceiling is 12; none of its prompts has a persona, theme, guidance or
\* style block; and the poem it returns has between 3 and 12 lines.
C31_AllFieldsOptional ==
    \A r \in RunIds :
        (options[r] = NoOptions /\ pc[r] # "idle") =>
            /\ pc[r] # "failed"
            /\ calls[r][1] = [kind |-> "title", len |-> 0]
            /\ Len(calls[r]) >= 2 => calls[r][2] = [kind |-> "seed", len |-> 0]
            /\ \A i \in 3..Len(calls[r]) : calls[r][i].kind \in {"line", "judge"}
            /\ HasPoem(r) => maxLines[r] = 12
            /\ pc[r] \in Kinds =>
                   {prompt[r][i].block : i \in 1..Len(prompt[r])} \subseteq BareBlocks
            /\ pc[r] = "done" => (Length(r) >= 3 /\ Length(r) <= 12)

\* A run without options that no judgment ended: it returned 12 lines
\* after a title and a seed request.
C31_Witness ==
    /\ options[1] = NoOptions
    /\ pc[1] = "done" /\ Length(1) = 12 /\ ~isComplete[1]
    /\ KindsOf(1)[1] = "title" /\ KindsOf(1)[2] = "seed"
    /\ Cardinality(CallsOfKind(1, "judge")) = 10

\* The names of ModelNames that contain 'instruct', and those that
\* contain '8b'.
InstructNames ==
    {<<"q", "w", "e", "n", "-", "i", "n", "s", "t", "r", "u", "c", "t">>,
     <<"m", "i", "s", "t", "r", "a", "l", ":", "8", "b", "-", "i", "n", "s", "t", "r", "u", "c", "t">>}
EightBNames ==
    {<<"l", "l", "a", "m", "a", "3", ":", "8", "b">>,
     <<"m", "i", "s", "t", "r", "a", "l", ":", "8", "b", "-", "i", "n", "s", "t", "r", "u", "c", "t">>}

\* models[i] is the first name of the list that is in names.
FirstIn(models, i, names) ==
    /\ models[i] \in names
    /\ \A j \in 1..(i - 1) : models[j] \notin names

\* C32, model auto-selection: for an empty list the call fails with an
\* error; otherwise it returns a listed name: the first that contains
\* 'instruct' if there is one, otherwise the first that contains '8b' if
\* there is one, otherwise the first of the list.
C32_FindBestAvailableModel ==
    selectedModel # None =>
        LET models == listedModels
            outcome == Val(selectedModel)
            positions == 1..Len(models)
        IN IF models = <<>> THEN outcome = None
           ELSE \E i \in positions :
                    /\ outcome = Some(models[i])
                    /\ IF \E j \in positions : models[j] \in InstructNames
                       THEN FirstIn(models, i, InstructNames)
                       ELSE IF \E j \in positions : models[j] \in EightBNames
                       THEN FirstIn(models, i, EightBNames)
                       ELSE i = 1

\* Ollama lists phi, llama3:8b and qwen-instruct: the third is selected.
C32_Witness ==
    /\ listedModels = <<<<"p", "h", "i">>,
                        <<"l", "l", "a", "m", "a", "3", ":", "8", "b">>,
                        <<"q", "w", "e", "n", "-", "i", "n", "s", "t", "r", "u", "c", "t">>>>
    /\ selectedModel =
           Some(Some(<<"q", "w", "e", "n", "-", "i", "n", "s", "t", "r", "u", "c", "t">>))

\* C33, loaders never fail the run: loadConfig gives null for a .poet file
\* that is missing, unreadable or not JSON, and the saved values otherwise;
\* the bio is null for a bio file that is missing, unreadable, empty or
\* blank, and the trimmed text otherwise; the run gets that bio, or none;
\* and a create command does not reach agent.run only when no model is
\* given, saved or installed.
C33_LoadersNeverFail ==
    command = "create" =>
        LET file == files[cwd]
        IN /\ runCli_poetConfig =
                  (IF file = Some([readable |-> TRUE, content |-> stringify(FullConfig)])
                   THEN Some(FullConfig)
                   ELSE IF file = Some([readable |-> TRUE, content |-> stringify(EmptyConfig)])
                   THEN Some(EmptyConfig)
                   ELSE None)
           /\ runCli_userBio =
                  (IF bioFile = Some([readable |-> TRUE,
                                      content |-> <<" ", "M", "y", " ", "B", "i", "o", "\n">>])
                   THEN Some(<<"M", "y", " ", "B", "i", "o">>)
                   ELSE None)
           /\ agentRun # None => Val(agentRun).userBio = runCli_userBio
           /\ agentRun = None =>
                  /\ cliOptions.model = None
                  /\ runCli_poetConfig \in {None, Some(EmptyConfig)}

\* A create in a directory whose .poet is not JSON, with a blank bio file:
\* the run starts with no saved value and no bio.
C33_Witness ==
    /\ command = "create" /\ agentRun # None
    /\ files[cwd] = Some([readable |-> TRUE, content |-> NotJson])
    /\ bioFile = Some([readable |-> TRUE, content |-> <<" ", "\n">>])
    /\ runCli_poetConfig = None
    /\ Val(agentRun).userBio = None /\ Val(agentRun).title = None

\* C34, limerick and sonnet without guidance target: the returned poem has
\* L lines with 3 <= L <= the fixed count (5 or 14).  One judgment was
\* requested at each length from 3 up to L, none at the fixed count.  L is
\* below the fixed count exactly when the judgment at L lines affirmed, the
\* earlier ones not having done so; a poem of the full count was completed
\* by the count after the judgment at the length before it denied.
C34_FixedFormMayEndEarly ==
    \A r \in RunIds :
        (/\ pc[r] = "done"
         /\ options[r].style \in LimerickStyles \cup SonnetStyles
         /\ GuidanceTarget(options[r].guidance) = 0) =>
            LET fixed == FixedCountOf(options[r].style)
                L == Length(r)
                affirmed == LastJudgment(r) \in {Some(x) : x \in AffirmingResponses}
            IN /\ L >= 3 /\ L <= fixed
               /\ \A k \in 1..fixed :
                      Cardinality(JudgmentsAt(r, k)) =
                          IF k >= 3 /\ k <= L /\ k < fixed THEN 1 ELSE 0
               /\ L < fixed <=> affirmed
               /\ isComplete[r]
               /\ L < fixed => calls[r][Len(calls[r])] = [kind |-> "judge", len |-> L]
               /\ L = fixed => calls[r][Len(calls[r])] = [kind |-> "line", len |-> L - 1]

\* A sonnet that the judgment at 5 lines ended, after those at 3 and 4
\* lines had not.
C34_Witness ==
    /\ pc[1] = "done" /\ isComplete[1] /\ Length(1) = 5
    /\ options[1].style = Some(<<"S", "o", "n", "n", "e", "t">>)
    /\ options[1].guidance = None
    /\ Cardinality(CallsOfKind(1, "judge")) = 3
    /\ lastResponse[1]["judge"] = Some(<<"Y", "e", "s">>)

\* The place of a request kind in a run: title, then seed, then the loop.
KindRank(kind) == IF kind = "title" THEN 1 ELSE IF kind = "seed" THEN 2 ELSE 3

Missing(o) == o \in {None, Some(<<>>)}

\* C35, call ordering: a title request is issued iff the title is absent or
\* empty, a seed request iff the seed line is absent or empty, each at most
\* once; the title request precedes the seed request and both precede every
\* next-line request; a judgment request directly follows a next-line
\* request, so at most one lies between two next-line requests; and none is
\* issued before the first append.
C35_CallOrdering ==
    \A r \in RunIds :
        LET n == Len(calls[r])
        IN /\ pc[r] # "idle" =>
                  CallsOfKind(r, "title") = (IF Missing(options[r].title) THEN {1} ELSE {})
           /\ Cardinality(CallsOfKind(r, "seed")) <= 1
           /\ ~Missing(options[r].seedLine) => CallsOfKind(r, "seed") = {}
           /\ (HasPoem(r) /\ Missing(options[r].seedLine)) =>
                  Cardinality(CallsOfKind(r, "seed")) = 1
           /\ (pc[r] = "title" /\ Missing(options[r].seedLine)) =>
                  CallsOfKind(r, "seed") = {}
           /\ \A i \in 1..n : \A j \in (i + 1)..n :
                  KindRank(calls[r][i].kind) <= KindRank(calls[r][j].kind)
           /\ \A i \in CallsOfKind(r, "judge") :
                  /\ i > 1
                  /\ calls[r][i - 1].kind = "line"
                  /\ calls[r][i].len = calls[r][i - 1].len + 1
                  /\ calls[r][i].len >= 2

\* A run with a title and an empty seed line: no title request, a seed
\* request, two next-line requests and the judgment at 3 lines.
C35_Witness ==
    /\ pc[1] = "done"
    /\ options[1].title = Some(<<"M", "y">>) /\ options[1].seedLine = Some(<<>>)
    /\ KindsOf(1) = <<"seed", "line", "line", "judge">>

\* C36, sequential reuse: a run that starts on the agent after the previous
\* run has finished uses only its own userBio and guidance.  Its title, seed
\* and next-line prompts state exactly the persona and the guidance of its
\* own options, its judgment prompt has a length requirement only for its
\* own guidance target, its ceiling is resolved from its own options, and it
\* ends at its own guidance target or, having none, by a judgment or at the
\* ceiling; with no guidance and no bio the prompts have neither block.
C36_SequentialReuse ==
    (pc[1] = "done" /\ pc[2] # "idle") =>
        LET N == GuidanceTarget(options[2].guidance)
        IN /\ pc[2] \in {"title", "seed", "line"} =>
                  /\ TextsIn(prompt[2], "persona") = Stated(options[2].userBio)
                  /\ TextsIn(prompt[2], "guidance") = Stated(options[2].guidance)
           /\ pc[2] = "judge" =>
                  /\ (TextsIn(prompt[2], "requirement") # {}) <=> (N >= 1)
                  /\ TextsIn(prompt[2], "guidance") =
                         (IF N >= 1 THEN {} ELSE Stated(options[2].guidance))
           /\ HasPoem(2) =>
                  /\ maxLines[2] = ResolvedTarget(options[2])
                  /\ \A k \in 1..(N - 1) : JudgmentsAt(2, k) = {}
                  /\ (pc[2] = "done" /\ N >= 1) => Length(2) = N
                  /\ (pc[2] = "done" /\ N = 0) =>
                         \/ Length(2) = maxLines[2]
                         \/ JudgmentsAt(2, Length(2)) # {}

\* The first run had a bio and a guidance target; the second, started after
\* it, has neither and has finished a haiku of 3 lines.
C36_Witness ==
    /\ pc[1] = "done" /\ pc[2] = "done"
    /\ IsSome(options[1].userBio) /\ GuidanceTarget(options[1].guidance) >= 1
    /\ options[2].userBio = None /\ options[2].guidance = None
    /\ Length(1) = ConcGuidanceCount
    /\ Length(2) = HaikuLines

\* C37, ceiling under concurrency: under any interleaving of two
\* invocations on one agent, each run keeps lines.length at or below the
\* ceiling its own options resolve to, the ceiling is the run's own value
\* and is never changed by the other run, each run appends at most
\* ceiling - 1 lines, and each started run reaches its end.
C37_CeilingUnderInterleaving ==
    /\ [](\A r \in RunIds :
              /\ Cardinality(CallsOfKind(r, "line")) <= ResolvedTarget(options[r]) - 1
              /\ HasPoem(r) =>
                     /\ maxLines[r] = ResolvedTarget(options[r])
                     /\ Length(r) <= ResolvedTarget(options[r])
                     /\ Length(r) <= 1 + Cardinality(CallsOfKind(r, "line")))
    /\ \A r \in RunIds : (pc[r] # "idle") ~> (pc[r] = "done")

\* Both runs are under way, the agent's guidance field holds the other
\* run's guidance, and the haiku run without guidance has ended at its own
\* ceiling of 3 lines.
C37_Witness ==
    /\ pc[2] = "done" /\ pc[1] \notin {"idle", "done"}
    /\ options[2].guidance = None /\ options[2].style = Some(S_haiku)
    /\ this_guidance = options[1].guidance
    /\ Length(2) = HaikuLines /\ maxLines[2] = HaikuLines

\* The configuration that has exactly the five options as given.
GivenConfig(opts) == [k \in ConfigKeys |-> opts[k]]

\* C38, save-config replaces: a save-config that writes the file leaves in
\* its working directory a file from which loadConfig returns exactly the
\* given fields with their given values and no value for the others,
\* whatever the file held before, and it leaves the other directory's file
\* alone; every command loads what the file of its directory holds.
C38_SaveReplacesWholeConfig ==
    [][/\ command' # "none" => runCli_poetConfig' = loadConfig(files[cwd'])
       /\ (command' = "save-config" /\ files' # files) =>
              /\ loadConfig(files'[cwd']) = Some(GivenConfig(cliOptions'))
              /\ \A d \in Dirs \ {cwd'} : files'[d] = files[d]]_vars

\* A save-config with a title and a theme only, in a directory whose file
\* held all five fields: the file now has the two and nothing else.
C38_Witness ==
    /\ command = "save-config"
    /\ runCli_poetConfig = Some(FullConfig)
    /\ cliOptions.model = None /\ cliOptions.title = Some(T_Old)
    /\ LoadedConfig = Some(GivenConfig(cliOptions))
    /\ LoadedOf("model") = None /\ LoadedOf("seedLine") = None
    /\ LoadedOf("style") = None

\* C39, as claimed: a generated title stored in the poem has no double
\* quote and no leading or trailing white space, whatever the title
\* response was; a title supplied by the caller is stored unchanged.
C39_StoredTitleIsClean ==
    \A r \in RunIds :
        HasPoem(r) =>
            LET title == poem[r].title
            IN IF Truthy(options[r].title)
               THEN title = Val(options[r].title)
               ELSE /\ \A i \in 1..Len(title) : title[i] # "\""
                    /\ Len(title) > 0 =>
                           /\ ~IsSpace(title[1])
                           /\ ~IsSpace(title[Len(title)])

====
